---- MODULE Spec2Model ----
(***************************************************************************)
(* cosmic-mcp: the fixed-window rate limiter (src/utils/rate-limiter.ts)   *)
(* and the service layer above the repositories (object.service.ts,        *)
(* type.service.ts), modelled as state machines.                           *)
(*                                                                         *)
(* Spec          the limiter alone: calls on a few identifiers, the clock  *)
(*               and the periodic sweep, run side by side with a second    *)
(*               limiter that receives the same calls and is never swept.  *)
(* SpecSvc       in-flight service calls that suspend at every remote      *)
(*               call, sharing the limiter and the remote store.           *)
(* SpecSvcClock  createObject calls in flight while the clock advances     *)
(*               and the sweep runs.                                       *)
(* SpecErr       the error normaliser and the repositories' findOne on an  *)
(*               empty result, applied once to bounded inputs.             *)
(* SpecEntry     every entry point of the object, type and media services. *)
(* SpecMedia     one uploadMedia call over bounded filenames and payloads. *)
(* SpecTool      tools/call requests through the dispatcher of server.ts.  *)
(* SpecToolClock calls of one tool, one after another, while the clock    *)
(*               advances.                                                 *)
(* SpecText      the slug and plural functions applied once to a title.    *)
(***************************************************************************)
EXTENDS Integers, Sequences, FiniteSets, TLC

VARIABLES
    now,        \* Date.now()
    requests,   \* RateLimiter.requests: identifier -> {count, resetTime}
    shadow,     \* the requests map of the same limiter when cleanup() never runs
    ghost,      \* history: identifier -> the window its calls opened, and the calls in it
    last,       \* history: the last limiter call, what it read and what it returned
    pc,         \* per call: the remote call it is suspended at
    req,        \* per call: the operation and its arguments
    result,     \* per call: how it ended
    calls,      \* per call: the repository methods it has invoked, in order
    sent,       \* per call: data.slug once createObject has settled it
    hist,       \* per call: what its remote reads reported, and the calls in flight with it
    types,      \* remote store: the object types that exist
    objects,    \* remote store: id -> the object's type and slug
    media,      \* remote store: the ids of the media that exist
    fn          \* the last application of a pure function: its input and its value

limiterVars == <<now, requests, shadow, ghost, last>>
svcVars == <<pc, req, result, calls, sent, hist, types, objects, media, fn>>
vars == <<now, requests, shadow, ghost, last, pc, req, result, calls, sent, hist, types, objects,
          media, fn>>

----------------------------------------------------------------------------
(* Configuration and bounds *)

\* RateLimitConfig.windowMs and .maxRequests, scaled down
windowMs == 2
maxRequests == 2
\* the clock stops at MaxTime
MaxTime == 4
\* the most the clock advances between two Date.now() reads of one call
MaxSkew == 1

Identifiers == {"global", "other"}

Max(a, b) == IF a >= b THEN a ELSE b
Min(a, b) == IF a <= b THEN a ELSE b

----------------------------------------------------------------------------
(* RateLimiter *)

Has(map, id) == id \in DOMAIN map
MapSet(map, id, e) == [x \in (DOMAIN map) \cup {id} |-> IF x = id THEN e ELSE map[x]]
MapDelete(map, ids) == [x \in (DOMAIN map) \ ids |-> map[x]]
EmptyMap == [x \in {} |-> 0]

NoEntry == [count |-> 0, resetTime |-> -1]
EntryOf(map, id) == IF Has(map, id) THEN map[id] ELSE NoEntry

\* mutant: the window is taken as over at its last millisecond
WindowExpiredEarly(entry, t) == t >= entry.resetTime
\* now > entry.resetTime
WindowExpired(entry, t) == t > entry.resetTime

\* mutant: one request too many is admitted
LimitReachedLate(entry) == entry.count > maxRequests
\* entry.count >= this.config.maxRequests
LimitReached(entry) == entry.count >= maxRequests

\* mutant: the new window is given no length
FreshEntryNoWindow(t) == [count |-> 1, resetTime |-> t]
\* { count: 1, resetTime: now + this.config.windowMs }
FreshEntry(t) == [count |-> 1, resetTime |-> t + windowMs]

\* isAllowed(identifier) with Date.now() = t: the value returned and the map after
isAllowed(map, id, t) ==
    IF ~Has(map, id)
    THEN [allowed |-> TRUE, requests |-> MapSet(map, id, FreshEntry(t))]
    ELSE IF WindowExpired(map[id], t)
    THEN [allowed |-> TRUE, requests |-> MapSet(map, id, FreshEntry(t))]
    ELSE IF LimitReached(map[id])
    THEN [allowed |-> FALSE, requests |-> map]
    ELSE [allowed |-> TRUE,
          requests |-> MapSet(map, id, [map[id] EXCEPT !.count = @ + 1])]

\* mutant: the expiry of the window is not looked at
getRemainingRequestsNoExpiry(map, id, t) ==
    IF ~Has(map, id) THEN maxRequests ELSE Max(0, maxRequests - map[id].count)
getRemainingRequests(map, id, t) ==
    IF ~Has(map, id) THEN maxRequests
    ELSE IF t > map[id].resetTime THEN maxRequests
    ELSE Max(0, maxRequests - map[id].count)

getTimeUntilReset(map, id, t) ==
    IF ~Has(map, id) THEN 0 ELSE Max(0, map[id].resetTime - t)

NoInfo == [limit |-> 0, remaining |-> 0, resetTime |-> 0, retryAfter |-> 0]
getRateLimitInfo(map, id, t) ==
    IF ~Has(map, id) \/ t > EntryOf(map, id).resetTime
    THEN [limit |-> maxRequests, remaining |-> maxRequests,
          resetTime |-> t + windowMs, retryAfter |-> 0]
    ELSE [limit |-> maxRequests,
          remaining |-> Max(0, maxRequests - map[id].count),
          resetTime |-> map[id].resetTime,
          retryAfter |-> IF map[id].count >= maxRequests
                         THEN map[id].resetTime - t ELSE 0]

NoError == [name |-> "none", statusCode |-> 0, identifier |-> "", context |-> NoInfo]
RateLimitError(id, info) ==
    [name |-> "RateLimitError", statusCode |-> 429, identifier |-> id, context |-> info]

\* checkAndConsume(identifier): isAllowed reads the clock at t1 and, when it
\* denies, getRateLimitInfo reads it again at t2 >= t1
checkAndConsume(map, id, t1, t2) ==
    LET a == isAllowed(map, id, t1) IN
    IF a.allowed
    THEN [allowed |-> TRUE, requests |-> a.requests, error |-> NoError]
    ELSE [allowed |-> FALSE, requests |-> a.requests,
          error |-> RateLimitError(id, getRateLimitInfo(a.requests, id, t2))]

\* mutant: the sweep takes an entry at the last millisecond of its window
CleanupExpiredEarly(entry, t) == t >= entry.resetTime
\* cleanup(): now > entry.resetTime
CleanupExpired(entry, t) == t > entry.resetTime
cleanup(map, t) == MapDelete(map, {id \in DOMAIN map : CleanupExpired(map[id], t)})

----------------------------------------------------------------------------
(* History of the limiter's calls: the window of an identifier is opened by *)
(* its first call, or by its first call later than windowMs after the       *)
(* opening of the window before.                                            *)

NoWindow == [open |-> -1, calls |-> 0, admitted |-> 0]
WindowOf(g, id) == IF id \in DOMAIN g THEN g[id] ELSE NoWindow
InWindow(g, id, t) == id \in DOMAIN g /\ t <= g[id].open + windowMs

GhostCall(g, id, t, allowed) ==
    LET one == IF allowed THEN 1 ELSE 0 IN
    IF InWindow(g, id, t)
    THEN MapSet(g, id, [open |-> g[id].open,
                        calls |-> Min(g[id].calls + 1, maxRequests + 1),
                        admitted |-> g[id].admitted + one])
    ELSE MapSet(g, id, [open |-> t, calls |-> 1, admitted |-> one])

Ret(allowed, value, info, error) ==
    [allowed |-> allowed, value |-> value, info |-> info, error |-> error]
NoRet == Ret(FALSE, 0, NoInfo, NoError)

NoCall == [op |-> "none", id |-> "", at |-> 0, at2 |-> 0, ret |-> NoRet, sret |-> NoRet,
           before |-> NoWindow, inWindow |-> FALSE, entryBefore |-> NoEntry,
           entry |-> NoEntry]

\* the record of a call on id that read the clock at t1 (and t2), returned ret,
\* would have returned sret without sweeps, and left the map newMap
CallRecord(op, id, t1, t2, ret, sret, newMap) ==
    [op |-> op, id |-> id, at |-> t1, at2 |-> t2, ret |-> ret, sret |-> sret,
     before |-> WindowOf(ghost, id), inWindow |-> InWindow(ghost, id, t1),
     entryBefore |-> EntryOf(requests, id), entry |-> EntryOf(newMap, id)]

----------------------------------------------------------------------------
(* The limiter's operations as steps *)

IsAllowed(id) ==
    LET r == isAllowed(requests, id, now)
        s == isAllowed(shadow, id, now)
    IN /\ requests' = r.requests
       /\ shadow' = s.requests
       /\ ghost' = GhostCall(ghost, id, now, r.allowed)
       /\ last' = CallRecord("isAllowed", id, now, now,
                             Ret(r.allowed, 0, NoInfo, NoError),
                             Ret(s.allowed, 0, NoInfo, NoError), r.requests)
       /\ UNCHANGED now

\* the limiter's part of every step that calls checkAndConsume(id): the clock
\* is read a second time, at t2, only when isAllowed has denied
Consume(id, t2) ==
    LET r == checkAndConsume(requests, id, now, t2)
        s == checkAndConsume(shadow, id, now, t2)
    IN /\ requests' = r.requests
       /\ shadow' = s.requests
       /\ ghost' = GhostCall(ghost, id, now, r.allowed)
       /\ last' = CallRecord("checkAndConsume", id, now, IF r.allowed THEN now ELSE t2,
                             Ret(r.allowed, 0, NoInfo, r.error),
                             Ret(s.allowed, 0, NoInfo, s.error), r.requests)
       /\ now' = IF r.allowed THEN now ELSE t2

ClockReads == {t \in now..(now + MaxSkew) : t <= MaxTime}

CheckAndConsume(id) == \E t2 \in ClockReads : Consume(id, t2)

GetRemainingRequests(id) ==
    /\ last' = CallRecord("getRemainingRequests", id, now, now,
                          Ret(FALSE, getRemainingRequests(requests, id, now), NoInfo, NoError),
                          Ret(FALSE, getRemainingRequests(shadow, id, now), NoInfo, NoError),
                          requests)
    /\ UNCHANGED <<now, requests, shadow, ghost>>

GetTimeUntilReset(id) ==
    /\ last' = CallRecord("getTimeUntilReset", id, now, now,
                          Ret(FALSE, getTimeUntilReset(requests, id, now), NoInfo, NoError),
                          Ret(FALSE, getTimeUntilReset(shadow, id, now), NoInfo, NoError),
                          requests)
    /\ UNCHANGED <<now, requests, shadow, ghost>>

GetRateLimitInfo(id) ==
    /\ last' = CallRecord("getRateLimitInfo", id, now, now,
                          Ret(FALSE, 0, getRateLimitInfo(requests, id, now), NoError),
                          Ret(FALSE, 0, getRateLimitInfo(shadow, id, now), NoError),
                          requests)
    /\ UNCHANGED <<now, requests, shadow, ghost>>

\* reset(identifier): the entry and with it the identifier's window are gone
Reset(id) ==
    /\ requests' = MapDelete(requests, {id})
    /\ shadow' = MapDelete(shadow, {id})
    /\ ghost' = MapDelete(ghost, {id})
    /\ last' = CallRecord("reset", id, now, now, NoRet, NoRet, requests')
    /\ UNCHANGED now

\* resetAll()
ResetAll ==
    /\ requests' = EmptyMap
    /\ shadow' = EmptyMap
    /\ ghost' = EmptyMap
    /\ last' = [NoCall EXCEPT !.op = "resetAll"]
    /\ UNCHANGED now

\* the setInterval callback of the constructor
Cleanup ==
    /\ requests' = cleanup(requests, now)
    /\ UNCHANGED <<now, shadow, ghost, last>>

Tick ==
    /\ now < MaxTime
    /\ now' = now + 1
    /\ UNCHANGED <<requests, shadow, ghost, last>>

----------------------------------------------------------------------------
(* Strings are sequences of characters *)

LowerSeq == <<"a", "b", "c", "d", "e", "f", "g", "h", "i", "j", "k", "l", "m",
             "n", "o", "p", "q", "r", "s", "t", "u", "v", "w", "x", "y", "z">>
UpperSeq == <<"A", "B", "C", "D", "E", "F", "G", "H", "I", "J", "K", "L", "M",
             "N", "O", "P", "Q", "R", "S", "T", "U", "V", "W", "X", "Y", "Z">>
LowerLetters == {LowerSeq[i] : i \in 1..26}
UpperLetters == {UpperSeq[i] : i \in 1..26}
Digits == {"0", "1", "2", "3", "4", "5", "6", "7", "8", "9"}
\* the characters of \s that the titles use
Spaces == {" ", "\t"}
toLowerCaseChar(c) ==
    IF c \in UpperLetters THEN LowerSeq[CHOOSE i \in 1..26 : UpperSeq[i] = c] ELSE c
toLowerCase(str) == [i \in 1..Len(str) |-> toLowerCaseChar(str[i])]

RECURSIVE trimStart(_)
trimStart(str) ==
    IF str # <<>> /\ Head(str) \in Spaces THEN trimStart(Tail(str)) ELSE str
RECURSIVE trimEnd(_)
trimEnd(str) ==
    IF str # <<>> /\ str[Len(str)] \in Spaces
    THEN trimEnd(SubSeq(str, 1, Len(str) - 1)) ELSE str
trim(str) == trimEnd(trimStart(str))

\* replace(/[^a-z0-9\s-]/g, "")
KeptChar(c) == c \in LowerLetters \cup Digits \cup Spaces \cup {"-"}
removeSpecial(str) == SelectSeq(str, KeptChar)

\* replace(/X+/g, "-") for a class X of characters
RECURSIVE collapseRuns(_, _)
collapseRuns(str, class) ==
    IF str = <<>> THEN <<>>
    ELSE IF Head(str) \in class
    THEN IF Len(str) >= 2 /\ str[2] \in class
         THEN collapseRuns(Tail(str), class)
         ELSE <<"-">> \o collapseRuns(Tail(str), class)
    ELSE <<Head(str)>> \o collapseRuns(Tail(str), class)

\* mutant: only the leading hyphen is removed
stripLeadingHyphen(str) == IF str # <<>> /\ Head(str) = "-" THEN Tail(str) ELSE str
\* replace(/^-|-$/g, "")
stripEdgeHyphens(str) ==
    LET a == IF str # <<>> /\ Head(str) = "-" THEN Tail(str) ELSE str
    IN IF a # <<>> /\ a[Len(a)] = "-" THEN SubSeq(a, 1, Len(a) - 1) ELSE a

generateSlugFromTitle(title) ==
    stripEdgeHyphens(
        collapseRuns(
            collapseRuns(removeSpecial(trim(toLowerCase(title))), Spaces),
            {"-"}))

----------------------------------------------------------------------------
(* Service calls *)

\* the service calls of one behaviour, which can all be in flight together
NProc == 2
Proc == 1..NProc
\* the objects the remote store holds at most
MaxObj == 2

NoStr == <<>>
SlugA == <<"a">>
TypeSlugs == {"t1"}

ObjectOps == {"listObjects", "getObject", "createObject", "updateObject",
              "deleteObject", "searchObjects"}
TypeOps == {"listObjectTypes", "getObjectType", "createObjectType", "updateObjectType",
            "deleteObjectType", "getObjectTypeStats", "validateTypeSlug",
            "duplicateObjectType"}
MediaOps == {"listMedia", "getMedia", "uploadMedia", "updateMedia", "deleteMedia",
             "getMediaStats", "getMediaByFolder", "optimizeMedia"}

\* the identifier each service method hands to checkAndConsume
RateId(op) ==
    CASE op = "listObjects" -> "list_objects"
      [] op = "getObject" -> "get_object"
      [] op = "createObject" -> "create_object"
      [] op = "updateObject" -> "update_object"
      [] op = "deleteObject" -> "delete_object"
      [] op = "searchObjects" -> "search_objects"
      [] op = "deleteObjectType" -> "delete_object_type"
      [] op = "getObjectStats" -> "get_stats"
      [] op = "listObjectTypes" -> "list_object_types"
      [] op = "getObjectType" -> "get_object_type"
      [] op = "createObjectType" -> "create_object_type"
      [] op = "updateObjectType" -> "update_object_type"
      [] op = "getObjectTypeStats" -> "get_type_stats"
      [] op = "validateTypeSlug" -> "validate_slug"
      [] op = "duplicateObjectType" -> "duplicate_type"
      [] op = "listMedia" -> "list_media"
      [] op = "getMedia" -> "get_media"
      [] op = "uploadMedia" -> "upload_media"
      [] op = "updateMedia" -> "update_media"
      [] op = "deleteMedia" -> "delete_media"
      [] op = "getMediaStats" -> "get_stats"
      [] op = "getMediaByFolder" -> "get_media_folder"
      [] op = "optimizeMedia" -> "optimize_media"

\* fileData: the base64 characters it holds and the white space around them
NoFile == [chars |-> 0, spaces |-> 0]
Request(op, typeSlug, slug, id, title) ==
    [op |-> op, typeSlug |-> typeSlug, slug |-> slug, id |-> id, title |-> title,
     newSlug |-> "", filename |-> NoStr, fileData |-> NoFile]
NoRequest == Request("none", "", NoStr, 0, NoStr)

\* the calls made: an object is addressed by id alone or by slug and typeSlug
Requests ==
    {Request("createObject", t, SlugA, 0, <<"B">>) : t \in TypeSlugs}
    \cup {Request("createObject", t, NoStr, 0, title) :
            t \in TypeSlugs, title \in {<<"A", "!">>, <<"!">>}}
    \cup {Request(op, t, NoStr, 0, NoStr) :
            op \in {"listObjects", "searchObjects"}, t \in TypeSlugs \cup {""}}
    \cup {Request(op, t, SlugA, 0, NoStr) :
            op \in {"getObject", "updateObject", "deleteObject"}, t \in TypeSlugs}
    \cup {Request(op, "", NoStr, 1, NoStr) :
            op \in {"getObject", "updateObject", "deleteObject"}}
    \cup {Request("deleteObjectType", t, NoStr, 0, NoStr) : t \in TypeSlugs}
CreateRequests == {r \in Requests : r.op = "createObject"}

\* the slugs an object type is asked for: taken, free, and badly formed
NewTypeSlugs == {"t1", "t2", "T!"}
SlugChars(slug) ==
    CASE slug = "t1" -> <<"t", "1">>
      [] slug = "t2" -> <<"t", "2">>
      [] slug = "T!" -> <<"T", "!">>
      [] slug = "" -> <<>>
SlugAlnum == LowerLetters \cup Digits
\* /^[a-z0-9]+(?:-[a-z0-9]+)*$/.test(slug) && slug.length >= 2 && slug.length <= 50
isValidSlugFormat(str) ==
    /\ Len(str) >= 2 /\ Len(str) <= 50
    /\ \A i \in 1..Len(str) : str[i] \in SlugAlnum \cup {"-"}
    /\ str[1] # "-" /\ str[Len(str)] # "-"
    /\ \A i \in 1..(Len(str) - 1) : ~(str[i] = "-" /\ str[i + 1] = "-")

\* the media the remote store holds at most
MaxMedia == 2
FreeMediaIds(m) == (1..MaxMedia) \ m

TypeRequest(op, slug) == Request(op, slug, NoStr, 0, NoStr)
DuplicateRequest(sourceSlug, newSlug) ==
    [Request("duplicateObjectType", sourceSlug, NoStr, 0, NoStr) EXCEPT !.newSlug = newSlug]
MediaRequest(op, id) == Request(op, "", NoStr, id, NoStr)
UploadRequest(filename, fileData) ==
    [Request("uploadMedia", "", NoStr, 0, NoStr) EXCEPT
        !.filename = filename, !.fileData = fileData]

TypeRequests ==
    {TypeRequest(op, "") : op \in {"listObjectTypes", "getObjectTypeStats"}}
    \cup {TypeRequest(op, t) : op \in {"getObjectType", "updateObjectType"}, t \in TypeSlugs}
    \cup {TypeRequest("createObjectType", t) : t \in NewTypeSlugs}
    \cup {TypeRequest("validateTypeSlug", t) : t \in NewTypeSlugs}
    \cup {DuplicateRequest(t, n) : t \in TypeSlugs, n \in {"t2", "T!"}}
SmallFile == [chars |-> 4, spaces |-> 0]
MediaRequests ==
    {MediaRequest(op, 0) : op \in {"listMedia", "getMediaStats", "getMediaByFolder"}}
    \cup {MediaRequest(op, 1) : op \in {"getMedia", "updateMedia", "deleteMedia",
                                         "optimizeMedia"}}
    \cup {UploadRequest(f, SmallFile) : f \in {<<"photo", "png">>, <<"virus", "exe">>}}
EntryRequests ==
    Requests \cup {Request("getObjectStats", "", NoStr, 0, NoStr)}
    \cup TypeRequests \cup MediaRequests

\* the value a method returns, where the model follows it
NoValue == <<>>
NoResult == [name |-> "pending", statusCode |-> 0, slug |-> NoStr, typeSlug |-> "",
             message |-> NoStr, value |-> NoValue]
Ok == [name |-> "ok", statusCode |-> 200, slug |-> NoStr, typeSlug |-> "", message |-> NoStr,
       value |-> NoValue]
Returning(value) == [Ok EXCEPT !.value = value]
Thrown(name, code) ==
    [name |-> name, statusCode |-> code, slug |-> NoStr, typeSlug |-> "", message |-> NoStr,
     value |-> NoValue]
\* new ValidationError(message, { slug, typeSlug })
ValidationError(slug, typeSlug) ==
    [name |-> "ValidationError", statusCode |-> 400, slug |-> slug, typeSlug |-> typeSlug,
     message |-> NoStr, value |-> NoValue]
\* new ValidationError(message)
ValidationErrorSaying(message) ==
    [name |-> "ValidationError", statusCode |-> 400, slug |-> NoStr, typeSlug |-> "",
     message |-> message, value |-> NoValue]
\* what handleError throws for a lookup that returned nothing
NotFound == Thrown("CosmicObjectNotFoundError", 404)
\* what handleError throws for a remote call that was rejected
Rejected == Thrown("CosmicConnectionError", 503)

NoHist == [typeExists |-> "none", lookup |-> "none", existed |-> FALSE,
           fetched |-> "none", target |-> 0, returned |-> -1, inserted |-> 0,
           concurrent |-> {}, branches |-> <<>>, tool |-> "", stage |-> "none",
           valid |-> FALSE]

\* what a service method does next: invoke a repository method and suspend at
\* its remote call, or end
Await(method, at) == [call |-> method, pc |-> at, result |-> NoResult]
End(res) == [call |-> "", pc |-> "done", result |-> res]

ById(r) == r.id # 0

\* the remote lookup of objects.findOne(cosmicQuery)
IdsOf(objs, typeSlug, slug) ==
    {i \in DOMAIN objs : objs[i].type = typeSlug /\ objs[i].slug = slug}
Matching(objs, r, slug) ==
    IF ById(r) THEN {i \in DOMAIN objs : i = r.id} ELSE IdsOf(objs, r.typeSlug, slug)
OfType(objs, typeSlug) == {i \in DOMAIN objs : objs[i].type = typeSlug}
FreeIds(objs) == (1..MaxObj) \ DOMAIN objs

\* the part of each ObjectService method after the type check
AfterTypeCheck(r) ==
    CASE r.op = "listObjects" -> Await("objectRepository.findMany", "findMany")
      [] r.op = "searchObjects" -> Await("objectRepository.search", "search")
      [] r.op \in {"getObject", "updateObject", "deleteObject"} ->
            Await("objectRepository.findOne", "findOne")

\* if (!data.slug) data.slug = this.generateSlugFromTitle(data.title)
SettledSlug(r) == IF r.slug = NoStr THEN generateSlugFromTitle(r.title) ELSE r.slug

\* mutant: the missing type is let through
TypeMissingIgnored(exists) == FALSE
\* if (!typeExists) throw new ValidationError(...)
TypeMissing(exists) == ~exists

\* resumed with the value of typeRepository.typeExists
AfterTypeExists(r, exists) ==
    IF TypeMissing(exists) THEN End(ValidationError(NoStr, r.typeSlug))
    ELSE IF r.op = "createObject"
    THEN IF SettledSlug(r) # NoStr
         THEN Await("objectRepository.findOne", "lookup")
         ELSE Await("objectRepository.create", "create")
    ELSE AfterTypeCheck(r)

\* checkObjectSlugExists: true when findOne resolved, false when it threw
checkObjectSlugExists(outcome) == outcome = "found"

\* resumed with the value of checkObjectSlugExists
AfterLookup(r, slug, outcome) ==
    IF checkObjectSlugExists(outcome)
    THEN End(ValidationError(slug, r.typeSlug))
    ELSE Await("objectRepository.create", "create")

\* resumed after the service's own objectRepository.findOne(query)
AfterFindOne(r, outcome) ==
    IF outcome = "notfound" THEN End(NotFound)
    ELSE IF outcome = "rejected" THEN End(Rejected)
    ELSE CASE r.op = "getObject" -> End(Ok)
           [] r.op = "updateObject" ->
                IF ById(r) THEN Await("objectRepository.update", "updateOne")
                ELSE Await("objectRepository.update", "resolveUpdate")
           [] r.op = "deleteObject" ->
                IF ById(r) THEN Await("objectRepository.delete", "deleteOne")
                ELSE Await("objectRepository.delete", "resolveDelete")

\* mutant: one object of the type is not enough to block
HasObjectsMoreThanOne(n) == n > 1
\* objectsOfType.objects && objectsOfType.objects.length > 0
HasObjects(n) == n > 0

\* deleteObjectType resumed with the objects of the type (limit 1)
AfterTypeObjects(r, n) ==
    IF HasObjects(n) THEN End(ValidationError(NoStr, r.typeSlug))
    ELSE Await("typeRepository.delete", "typeDelete")

\* the slug handed to validateSlugFormat and checkTypeSlugExists
NewTypeSlug(r) == IF r.op = "duplicateObjectType" THEN r.newSlug ELSE r.typeSlug

\* validateSlugFormat(slug), then await this.checkTypeSlugExists(slug)
CheckNewTypeSlug(r) ==
    IF ~isValidSlugFormat(SlugChars(NewTypeSlug(r)))
    THEN End(ValidationError(NoStr, NewTypeSlug(r)))
    ELSE Await("typeRepository.typeExists", "typeSlugExists")

\* TypeService methods resumed after typeRepository.findOne
AfterTypeFindOne(r, outcome) ==
    IF outcome = "notfound" THEN End(NotFound)
    ELSE IF outcome = "rejected" THEN End(Rejected)
    ELSE CASE r.op = "deleteObjectType" -> Await("objectRepository.findMany", "typeObjects")
           [] r.op = "getObjectType" -> End(Ok)
           [] r.op = "updateObjectType" -> Await("typeRepository.update", "typeUpdate")
           [] r.op = "duplicateObjectType" -> CheckNewTypeSlug(r)

\* mutant: the numbered suggestions stop at 4
generateSlugSuggestionsShort(baseSlug) ==
    [i \in 1..3 |-> baseSlug \o "-" \o ToString(i + 1)]
    \o <<baseSlug \o "-new", baseSlug \o "-v2", baseSlug \o "-alt", baseSlug \o "-copy">>
\* for (let i = 2; i <= 5; i++) push(`${baseSlug}-${i}`), then the suffixes
generateSlugSuggestions(baseSlug) ==
    [i \in 1..4 |-> baseSlug \o "-" \o ToString(i + 1)]
    \o <<baseSlug \o "-new", baseSlug \o "-v2", baseSlug \o "-alt", baseSlug \o "-copy">>

\* the validation object of validateTypeSlug: before the existence check, and
\* after it
Validation(isValid, isAvailable, suggestions) ==
    [isValid |-> isValid, isAvailable |-> isAvailable, suggestions |-> suggestions]
ValidationAfterCheck(slug, exists) ==
    Validation(TRUE, ~exists, IF exists THEN generateSlugSuggestions(slug) ELSE <<>>)

\* resumed with the value of checkTypeSlugExists
AfterTypeSlugExists(r, exists) ==
    IF r.op = "validateTypeSlug" THEN End(Returning(ValidationAfterCheck(r.typeSlug, exists)))
    ELSE IF exists THEN End(ValidationError(NoStr, NewTypeSlug(r)))
    ELSE Await("typeRepository.create", "typeCreate")

\* mutant: update and delete go on whatever the fetch gave
AfterMediaFindOneUnchecked(r, outcome) ==
    CASE r.op \in {"getMedia", "optimizeMedia"} -> End(Ok)
      [] r.op = "updateMedia" -> Await("mediaRepository.update", "mediaUpdate")
      [] r.op = "deleteMedia" -> Await("mediaRepository.delete", "mediaDelete")
\* MediaService methods resumed after mediaRepository.findOne
AfterMediaFindOne(r, outcome) ==
    IF outcome = "notfound" THEN End(NotFound)
    ELSE IF outcome = "rejected" THEN End(Rejected)
    ELSE CASE r.op \in {"getMedia", "optimizeMedia"} -> End(Ok)
           [] r.op = "updateMedia" -> Await("mediaRepository.update", "mediaUpdate")
           [] r.op = "deleteMedia" -> Await("mediaRepository.delete", "mediaDelete")

----------------------------------------------------------------------------
(* MediaService.uploadMedia: the checks before the remote create. A         *)
(* filename is the sequence of its parts between the dots.                  *)

MAX_FILE_SIZE == 50 * 1024 * 1024
BytesPerMB == 1024 * 1024
ALLOWED_MIME_TYPES ==
    {"image/jpeg", "image/jpg", "image/png", "image/gif", "image/webp", "image/svg+xml",
     "video/mp4", "video/webm", "audio/mp3", "audio/wav", "application/pdf",
     "text/plain", "text/csv", "application/json"}

\* parts made of [a-zA-Z0-9_-] only, and of [a-zA-Z0-9] only
AlnumParts == {"virus", "photo", "exe", "png", "PNG", "constructor"}
PlainParts == AlnumParts \cup {"", "my-file"}
PartLength(w) ==
    CASE w = "" -> 0
      [] w = " " -> 1
      [] w = "p!" -> 2
      [] w \in {"exe", "png", "PNG"} -> 3
      [] w \in {"virus", "photo"} -> 5
      [] w = "my-file" -> 7
      [] w = "constructor" -> 11
RECURSIVE filenameLength(_)
filenameLength(parts) ==
    IF Len(parts) = 1 THEN PartLength(parts[1])
    ELSE PartLength(Head(parts)) + 1 + filenameLength(Tail(parts))
toLowerCasePart(w) == IF w = "PNG" THEN "png" ELSE w

\* fileData.trim().length === 0
BlankFileData(fileData) == fileData.chars = 0
\* Buffer.from(fileData, "base64").length: 6 bits for each base64 character
decodedLength(fileData) == (fileData.chars * 3) \div 4
\* Math.round of a non-negative quotient
RoundDiv(a, b) == (2 * a + b) \div (2 * b)

\* /^[a-zA-Z0-9._-]+\.[a-zA-Z0-9]+$/
validFilenameRegex(parts) ==
    /\ Len(parts) >= 2
    /\ parts[Len(parts)] \in AlnumParts
    /\ \A i \in 1..(Len(parts) - 1) : parts[i] \in PlainParts
    /\ Len(parts) >= 3 \/ parts[1] # ""

NoProblem == <<>>
validateFileData(fileData) ==
    IF BlankFileData(fileData) THEN <<"File data is required">> ELSE NoProblem
validateFilename(parts) ==
    IF Len(parts) = 1 /\ parts[1] \in {"", " "} THEN <<"Filename is required">>
    ELSE IF ~validFilenameRegex(parts) THEN <<"Invalid filename format">>
    ELSE IF filenameLength(parts) > 255 THEN <<"Filename is too long (max 255 characters)">>
    ELSE NoProblem

\* mutant: a file of exactly the maximum is refused
FileTooLargeAtLimit(bytes) == bytes >= MAX_FILE_SIZE
\* buffer.length > this.MAX_FILE_SIZE
FileTooLarge(bytes) == bytes > MAX_FILE_SIZE
validateFileSize(fileData) ==
    IF FileTooLarge(decodedLength(fileData))
    THEN <<"File size (", ToString(RoundDiv(decodedLength(fileData), BytesPerMB)),
           "MB) exceeds maximum allowed size (", ToString(RoundDiv(MAX_FILE_SIZE, BytesPerMB)),
           "MB)">>
    ELSE NoProblem

\* mimeTypeMap[extension || ""] || "application/octet-stream"; the key
\* "constructor" is found on the prototype of the object literal
mimeTypeMap(extension) ==
    CASE extension \in {"jpg", "jpeg"} -> "image/jpeg"
      [] extension = "png" -> "image/png"
      [] extension = "gif" -> "image/gif"
      [] extension = "webp" -> "image/webp"
      [] extension = "svg" -> "image/svg+xml"
      [] extension = "mp4" -> "video/mp4"
      [] extension = "webm" -> "video/webm"
      [] extension = "mp3" -> "audio/mp3"
      [] extension = "wav" -> "audio/wav"
      [] extension = "pdf" -> "application/pdf"
      [] extension = "txt" -> "text/plain"
      [] extension = "csv" -> "text/csv"
      [] extension = "json" -> "application/json"
      [] extension = "constructor" -> "function Object() { [native code] }"
      [] OTHER -> "application/octet-stream"
getMimeTypeFromFilename(parts) == mimeTypeMap(toLowerCasePart(parts[Len(parts)]))

\* mutant: every MIME type is let through
MimeAllowedAny(mimeType) == TRUE
\* this.ALLOWED_MIME_TYPES.includes(mimeType)
MimeAllowed(mimeType) == mimeType \in ALLOWED_MIME_TYPES
validateMimeType(mimeType) ==
    IF MimeAllowed(mimeType) THEN NoProblem
    ELSE <<"File type '", mimeType, "' is not allowed. Allowed types: ", "image/jpeg, ...">>

\* the first check of uploadMedia that throws, in the order of the code
uploadProblem(r) ==
    IF validateFileData(r.fileData) # NoProblem THEN validateFileData(r.fileData)
    ELSE IF validateFilename(r.filename) # NoProblem THEN validateFilename(r.filename)
    ELSE IF validateFileSize(r.fileData) # NoProblem THEN validateFileSize(r.fileData)
    ELSE validateMimeType(getMimeTypeFromFilename(r.filename))

----------------------------------------------------------------------------
(* Errors: a message is a sequence of words, a context a map from keys to   *)
(* values                                                                   *)

Undefined == "undefined"
NoContext == [k \in {} |-> Undefined]
Get(context, key) == IF key \in DOMAIN context THEN context[key] ELSE Undefined
\* a || b
OrElse(a, b) == IF a \in {Undefined, ""} THEN b ELSE a

\* the most words of a raw error's message
MaxWords == 2
PatternWords == {"not found", "404", "unauthorized", "401", "quota", "429",
                 "validation", "400", "network", "connection"}
CapitalWords == {"Not Found", "Unauthorized", "Quota", "Validation", "Network", "Connection"}
Words == PatternWords \cup CapitalWords \cup {"timeout"}
Messages == UNION {[1..n -> Words] : n \in 0..MaxWords}

toLowerCaseWord(w) ==
    CASE w = "Not Found" -> "not found"
      [] w = "Unauthorized" -> "unauthorized"
      [] w = "Quota" -> "quota"
      [] w = "Validation" -> "validation"
      [] w = "Network" -> "network"
      [] w = "Connection" -> "connection"
      [] OTHER -> w
toLowerCaseMessage(message) == [i \in 1..Len(message) |-> toLowerCaseWord(message[i])]

\* message.includes(pattern)
includes(message, pattern) == \E i \in 1..Len(message) : message[i] = pattern

NoCause == [isError |-> FALSE, name |-> "undefined", message |-> <<>>]
\* new Error(message), and a thrown value that is not an Error
RawError(message) == [isError |-> TRUE, name |-> "Error", message |-> message]
NonError(message) == [isError |-> FALSE, name |-> "string", message |-> message]

BaseError(name, statusCode, message, context, cause) ==
    [isError |-> TRUE, name |-> name, statusCode |-> statusCode, message |-> message,
     context |-> context, cause |-> cause]

CosmicError(message, context, cause) == BaseError("CosmicError", 500, message, context, cause)
CosmicObjectNotFoundError(identifier, type) ==
    BaseError("CosmicObjectNotFoundError", 404,
              IF type \in {Undefined, ""}
              THEN <<"Object with identifier", identifier, "not found">>
              ELSE <<"Object with identifier", identifier, "of type", type, "not found">>,
              [identifier |-> identifier, type |-> type], NoCause)
CosmicMediaNotFoundError(mediaId) ==
    BaseError("CosmicMediaNotFoundError", 404, <<"Media with ID", mediaId, "not found">>,
              [mediaId |-> mediaId], NoCause)
CosmicAuthenticationError(message) ==
    BaseError("CosmicAuthenticationError", 401, message, NoContext, NoCause)
CosmicQuotaExceededError(message) ==
    BaseError("CosmicQuotaExceededError", 429, message, NoContext, NoCause)
CosmicValidationError(message) ==
    BaseError("CosmicValidationError", 400, message, [validationErrors |-> Undefined], NoCause)
CosmicConnectionError(message) ==
    BaseError("CosmicConnectionError", 503, message, NoContext, NoCause)

\* mutant: unauthorized/401 is tested before not-found/404
ClassOfAuthFirst(message) ==
    IF includes(message, "unauthorized") \/ includes(message, "401") THEN "auth"
    ELSE IF includes(message, "not found") \/ includes(message, "404") THEN "notFound"
    ELSE IF includes(message, "quota") \/ includes(message, "429") THEN "quota"
    ELSE IF includes(message, "validation") \/ includes(message, "400") THEN "validation"
    ELSE IF includes(message, "network") \/ includes(message, "connection") THEN "connection"
    ELSE "none"
\* the if-chain of createCosmicError over error.message
ClassOf(message) ==
    IF includes(message, "not found") \/ includes(message, "404") THEN "notFound"
    ELSE IF includes(message, "unauthorized") \/ includes(message, "401") THEN "auth"
    ELSE IF includes(message, "quota") \/ includes(message, "429") THEN "quota"
    ELSE IF includes(message, "validation") \/ includes(message, "400") THEN "validation"
    ELSE IF includes(message, "network") \/ includes(message, "connection") THEN "connection"
    ELSE "none"

createCosmicError(error, context) ==
    LET class == IF error.isError THEN ClassOf(error.message) ELSE "none" IN
    CASE class = "notFound" ->
            CosmicObjectNotFoundError(OrElse(Get(context, "identifier"), "unknown"),
                                      Get(context, "type"))
      [] class = "auth" -> CosmicAuthenticationError(error.message)
      [] class = "quota" -> CosmicQuotaExceededError(error.message)
      [] class = "validation" -> CosmicValidationError(error.message)
      [] class = "connection" -> CosmicConnectionError(error.message)
      [] OTHER -> CosmicError(error.message, context,
                              IF error.isError THEN error ELSE NoCause)

\* BaseRepository.handleError: what the repository method throws
handleError(error, context) == createCosmicError(error, context)

\* the three findOne methods when the remote lookup returned no entity
ObjectQueries == {[id |-> "o1"], [slug |-> "a", typeSlug |-> "t1"]}
MediaQueries == {[id |-> "m1"]}
TypeQueries == {[slug |-> "t1"]}
objectFindOneNoEntity(query) ==
    handleError(CosmicObjectNotFoundError(
                    OrElse(OrElse(Get(query, "id"), Get(query, "slug")), "unknown"),
                    Get(query, "typeSlug")),
                query)
mediaFindOneNoEntity(query) == handleError(CosmicMediaNotFoundError(query.id), query)
typeFindOneNoEntity(query) ==
    handleError(CosmicError(<<"Object type with slug", query.slug, "not found">>,
                            [slug |-> query.slug], NoCause),
                query)

----------------------------------------------------------------------------
(* Initial states and the limiter's specification *)

NoFn == [op |-> "none"]

LimiterInit ==
    /\ now = 0
    /\ requests = EmptyMap
    /\ shadow = EmptyMap
    /\ ghost = EmptyMap
    /\ last = NoCall

SvcIdle ==
    /\ pc = <<>>
    /\ req = <<>>
    /\ result = <<>>
    /\ calls = <<>>
    /\ sent = <<>>
    /\ hist = <<>>
    /\ types = {}
    /\ objects = <<>>
    /\ media = {}
    /\ fn = NoFn

Init == LimiterInit /\ SvcIdle

LIsAllowed == \E id \in Identifiers : IsAllowed(id) /\ UNCHANGED svcVars
LCheckAndConsume == \E id \in Identifiers : CheckAndConsume(id) /\ UNCHANGED svcVars
LGetRemainingRequests == \E id \in Identifiers : GetRemainingRequests(id) /\ UNCHANGED svcVars
LGetTimeUntilReset == \E id \in Identifiers : GetTimeUntilReset(id) /\ UNCHANGED svcVars
LGetRateLimitInfo == \E id \in Identifiers : GetRateLimitInfo(id) /\ UNCHANGED svcVars
LReset == \E id \in Identifiers : Reset(id) /\ UNCHANGED svcVars
LResetAll == ResetAll /\ UNCHANGED svcVars
LCleanup == Cleanup /\ UNCHANGED svcVars
LTick == Tick /\ UNCHANGED svcVars

Next ==
    \/ LIsAllowed
    \/ LCheckAndConsume
    \/ LGetRemainingRequests
    \/ LGetTimeUntilReset
    \/ LGetRateLimitInfo
    \/ LReset
    \/ LResetAll
    \/ LCleanup
    \/ LTick

Spec == Init /\ [][Next]_vars

----------------------------------------------------------------------------
(* The error normaliser applied to raw errors, and the findOne methods     *)
(* applied to queries that find nothing                                     *)

callVars == <<pc, req, result, calls, sent, hist, types, objects, media>>

RawErrors == {RawError(m) : m \in Messages} \cup {NonError(m) : m \in Messages}
Contexts == {NoContext, [operation |-> "find objects"],
             [identifier |-> "o1", type |-> "t1"]}

CreateCosmicError ==
    /\ fn = NoFn
    /\ \E error \in RawErrors, context \in Contexts :
         fn' = [op |-> "createCosmicError", error |-> error, context |-> context,
                out |-> createCosmicError(error, context)]
    /\ UNCHANGED <<limiterVars, callVars>>

FindOneNoEntity ==
    /\ fn = NoFn
    /\ \/ \E q \in ObjectQueries :
            fn' = [op |-> "findOne", kind |-> "object", query |-> q,
                   out |-> objectFindOneNoEntity(q)]
       \/ \E q \in MediaQueries :
            fn' = [op |-> "findOne", kind |-> "media", query |-> q,
                   out |-> mediaFindOneNoEntity(q)]
       \/ \E q \in TypeQueries :
            fn' = [op |-> "findOne", kind |-> "type", query |-> q,
                   out |-> typeFindOneNoEntity(q)]
    /\ UNCHANGED <<limiterVars, callVars>>

NextErr ==
    \/ CreateCosmicError
    \/ FindOneNoEntity

SpecErr == Init /\ [][NextErr]_vars

-----------------------------------------------------------------------------
(* The text functions of the services, applied once to a title              *)

MaxTitle == 4
StringsUpTo(chars, n) == UNION {[1..k -> chars] : k \in 0..n}

TitleChars == {"a", "B", "1", " ", "\t", "-", "!"}
HelloWorld == <<"H", "e", "l", "l", "o", ",", " ", "W", "o", "r", "l", "d", "!", "!">>
TestObjectTitle == <<"T", "e", "s", "t", " ", "O", "b", "j", "e", "c", "t", " ",
                     "T", "i", "t", "l", "e">>
Titles == StringsUpTo(TitleChars, MaxTitle) \cup {HelloWorld, TestObjectTitle}

GenerateSlug ==
    /\ fn = NoFn
    /\ \E title \in Titles :
         fn' = [op |-> "generateSlugFromTitle", title |-> title,
                out |-> generateSlugFromTitle(title),
                again |-> generateSlugFromTitle(generateSlugFromTitle(title))]
    /\ UNCHANGED <<limiterVars, callVars>>

Vowels == {"a", "e", "i", "o", "u"}
endsWith(word, suffix) ==
    /\ Len(word) >= Len(suffix)
    /\ SubSeq(word, Len(word) - Len(suffix) + 1, Len(word)) = suffix
\* word.slice(0, -n)
dropLast(word, n) == SubSeq(word, 1, Len(word) - n)

generatePluralForm(title) ==
    LET word == trim(toLowerCase(title))
    IN IF /\ endsWith(word, <<"y">>)
          /\ Len(word) > 1
          /\ word[Len(word) - 1] \notin Vowels
       THEN dropLast(word, 1) \o <<"i", "e", "s">>
       ELSE IF \/ endsWith(word, <<"s">>)
               \/ endsWith(word, <<"s", "h">>)
               \/ endsWith(word, <<"c", "h">>)
               \/ endsWith(word, <<"x">>)
               \/ endsWith(word, <<"z">>)
       THEN word \o <<"e", "s">>
       ELSE IF endsWith(word, <<"f">>)
       THEN dropLast(word, 1) \o <<"v", "e", "s">>
       ELSE IF endsWith(word, <<"f", "e">>)
       THEN dropLast(word, 2) \o <<"v", "e", "s">>
       ELSE word \o <<"s">>

\* createObjectType: if (!data.plural) data.plural = generatePluralForm(title)
pluralOf(data) ==
    IF data.plural = <<>> THEN generatePluralForm(data.title) ELSE data.plural

PluralChars == {"y", "Y", "a", "b", "s", "h", "c", "x", "z", "f", "e", "2", " "}
Category == <<"C", "a", "t", "e", "g", "o", "r", "y">>
Box == <<"B", "o", "x">>
Leaf == <<"L", "e", "a", "f">>
Life == <<"L", "i", "f", "e">>
Post == <<"P", "o", "s", "t">>
TypeTitles == StringsUpTo(PluralChars, MaxTitle) \cup {Category, Box, Leaf, Life, Post}
Oxen == <<"o", "x", "e", "n">>

CreateTypePlural ==
    /\ fn = NoFn
    /\ \E title \in TypeTitles, plural \in {<<>>, Oxen} :
         fn' = [op |-> "createObjectType", title |-> title, plural |-> plural,
                out |-> pluralOf([title |-> title, plural |-> plural])]
    /\ UNCHANGED <<limiterVars, callVars>>

NextText ==
    \/ GenerateSlug
    \/ CreateTypePlural

SpecText == Init /\ [][NextText]_vars

----------------------------------------------------------------------------
(* The service calls as steps: one step runs a call from the answer of a    *)
(* remote call to its next await. A remote call is served from the store or *)
(* rejected.                                                                *)

InFlight(p) == pc[p] \notin {"idle", "done"}
Outcomes == {"served", "rejected"}

Apply(p, k) ==
    /\ pc' = [pc EXCEPT ![p] = k.pc]
    /\ calls' = [calls EXCEPT ![p] = IF k.call = "" THEN @ ELSE Append(@, k.call)]
    /\ result' = [result EXCEPT ![p] = k.result]

Note(p, h) == hist' = [hist EXCEPT ![p] = h]

\* a service method up to its first await: checkAndConsume, then the first
\* repository call
FirstStep(r) ==
    CASE r.op \in {"deleteObjectType", "getObjectType", "updateObjectType",
                   "duplicateObjectType"} ->
            Await("typeRepository.findOne", "typeFindOne")
      [] r.op = "listObjectTypes" -> Await("typeRepository.findMany", "typeFindMany")
      [] r.op = "createObjectType" -> CheckNewTypeSlug(r)
      [] r.op = "validateTypeSlug" ->
            IF isValidSlugFormat(SlugChars(r.typeSlug))
            THEN Await("typeRepository.typeExists", "typeSlugExists")
            ELSE End(Returning(Validation(FALSE, FALSE, <<>>)))
      [] r.op = "getObjectTypeStats" ->
            Await("typeRepository.getObjectTypeStats", "typeStats")
      [] r.op = "getObjectStats" -> Await("objectRepository.findMany", "findMany")
      [] r.op = "listMedia" -> Await("mediaRepository.findMany", "mediaFindMany")
      [] r.op \in {"getMedia", "updateMedia", "deleteMedia", "optimizeMedia"} ->
            Await("mediaRepository.findOne", "mediaFindOne")
      [] r.op = "uploadMedia" ->
            IF uploadProblem(r) # NoProblem
            THEN End(ValidationErrorSaying(uploadProblem(r)))
            ELSE Await("mediaRepository.create", "mediaCreate")
      [] r.op = "getMediaStats" -> Await("mediaRepository.getMediaStats", "mediaStats")
      [] r.op = "getMediaByFolder" ->
            Await("mediaRepository.getMediaByFolder", "mediaByFolder")
      [] r.op \in ObjectOps ->
            IF r.op = "createObject" \/ r.typeSlug # ""
            THEN Await("typeRepository.typeExists", "typeExists")
            ELSE AfterTypeCheck(r)

\* mutant: a denied call goes on as an admitted one
AdmitAlways(allowed, r) == FirstStep(r)
\* checkAndConsume throws RateLimitError out of the method, or returns
Admit(allowed, r) ==
    IF allowed THEN FirstStep(r) ELSE End(Thrown("RateLimitError", 429))

Start(p, r) ==
    /\ pc[p] = "idle"
    /\ \E t2 \in ClockReads :
        /\ Consume(RateId(r.op), t2)
        /\ LET allowed == checkAndConsume(requests, RateId(r.op), now, t2).allowed
               others == {q \in Proc \ {p} : InFlight(q)}
           IN /\ Apply(p, Admit(allowed, r))
              /\ hist' = [q \in Proc |->
                            IF q = p
                            THEN [NoHist EXCEPT !.concurrent = IF allowed THEN others ELSE {}]
                            ELSE IF allowed /\ q \in others
                            THEN [hist[q] EXCEPT !.concurrent = @ \cup {p}]
                            ELSE hist[q]]
    /\ req' = [req EXCEPT ![p] = r]
    /\ UNCHANGED <<sent, types, objects>>

\* typeRepository.typeExists: objectTypes.find(), then some(type.slug === slug)
RespondTypeExists(p) ==
    /\ pc[p] = "typeExists"
    /\ \E o \in Outcomes :
        LET r == req[p]
            exists == r.typeSlug \in types
        IN IF o = "rejected"
           THEN /\ Apply(p, End(Rejected))
                /\ Note(p, [hist[p] EXCEPT !.typeExists = "error"])
                /\ UNCHANGED sent
           ELSE /\ Apply(p, AfterTypeExists(r, exists))
                /\ Note(p, [hist[p] EXCEPT !.typeExists = IF exists THEN "true" ELSE "false"])
                /\ sent' = [sent EXCEPT ![p] =
                              IF r.op = "createObject" /\ ~TypeMissing(exists)
                              THEN SettledSlug(r) ELSE @]
    /\ UNCHANGED <<req, types, objects>>
    /\ UNCHANGED limiterVars

\* checkObjectSlugExists: objectRepository.findOne({ slug, typeSlug })
RespondLookup(p) ==
    /\ pc[p] = "lookup"
    /\ \E o \in Outcomes :
        LET r == req[p]
            held == IdsOf(objects, r.typeSlug, sent[p]) # {}
            outcome == IF o = "rejected" THEN "rejected"
                       ELSE IF held THEN "found" ELSE "notfound"
        IN /\ Apply(p, AfterLookup(r, sent[p], outcome))
           /\ Note(p, [hist[p] EXCEPT !.lookup = outcome, !.existed = held])
    /\ UNCHANGED <<req, sent, types, objects>>
    /\ UNCHANGED limiterVars

\* the slug the remote store gives an object created without one
RemoteSlugs == {SlugA, <<"b">>}

\* objectRepository.create: objects.insertOne(objectData)
RespondCreate(p) ==
    /\ pc[p] = "create"
    /\ \E o \in Outcomes :
        IF o = "rejected"
        THEN /\ Apply(p, End(Rejected))
             /\ UNCHANGED <<objects, hist>>
        ELSE /\ FreeIds(objects) # {}
             /\ LET id == CHOOSE i \in FreeIds(objects) : \A j \in FreeIds(objects) : i <= j
                IN /\ \E s \in (IF sent[p] # NoStr THEN {sent[p]} ELSE RemoteSlugs) :
                        objects' = MapSet(objects, id, [type |-> req[p].typeSlug, slug |-> s])
                   /\ Note(p, [hist[p] EXCEPT !.inserted = id])
             /\ Apply(p, End(Ok))
    /\ UNCHANGED <<req, sent, types>>
    /\ UNCHANGED limiterVars

\* the service's objectRepository.findOne(query) of getObject, updateObject
\* and deleteObject
RespondFindOne(p) ==
    /\ pc[p] = "findOne"
    /\ \E o \in Outcomes :
        LET r == req[p]
            outcome == IF o = "rejected" THEN "rejected"
                       ELSE IF Matching(objects, r, r.slug) # {} THEN "found"
                       ELSE "notfound"
        IN /\ Apply(p, AfterFindOne(r, outcome))
           /\ Note(p, [hist[p] EXCEPT !.fetched = outcome])
    /\ UNCHANGED <<req, sent, types, objects>>
    /\ UNCHANGED limiterVars

\* the repositories' findMany, search and getMediaByFolder: one remote find
RespondFind(p) ==
    /\ pc[p] \in {"findMany", "search", "typeFindMany", "mediaFindMany", "mediaByFolder"}
    /\ \E o \in Outcomes : Apply(p, End(IF o = "rejected" THEN Rejected ELSE Ok))
    /\ UNCHANGED <<req, sent, hist, types, objects>>
    /\ UNCHANGED limiterVars

\* objectRepository.update and .delete addressed by slug: this.findOne(query)
\* gives the id
RespondResolve(p) ==
    /\ pc[p] \in {"resolveUpdate", "resolveDelete"}
    /\ \E o \in Outcomes :
        LET r == req[p]
            ids == Matching(objects, r, r.slug)
        IN IF o = "rejected"
           THEN Apply(p, End(Rejected)) /\ UNCHANGED hist
           ELSE IF ids = {}
           THEN Apply(p, End(NotFound)) /\ UNCHANGED hist
           ELSE /\ Apply(p, Await("", IF pc[p] = "resolveUpdate"
                                      THEN "updateOne" ELSE "deleteOne"))
                /\ \E id \in ids : Note(p, [hist[p] EXCEPT !.target = id])
    /\ UNCHANGED <<req, sent, types, objects>>
    /\ UNCHANGED limiterVars

Target(p) == IF ById(req[p]) THEN req[p].id ELSE hist[p].target

\* objects.updateOne(objectId, updateData)
RespondUpdateOne(p) ==
    /\ pc[p] = "updateOne"
    /\ \E o \in Outcomes :
        Apply(p, End(IF o = "rejected" THEN Rejected
                     ELSE IF Target(p) \in DOMAIN objects THEN Ok ELSE NotFound))
    /\ UNCHANGED <<req, sent, hist, types, objects>>
    /\ UNCHANGED limiterVars

\* objects.deleteOne(objectId)
RespondDeleteOne(p) ==
    /\ pc[p] = "deleteOne"
    /\ \E o \in Outcomes :
        IF o = "rejected"
        THEN Apply(p, End(Rejected)) /\ UNCHANGED objects
        ELSE IF Target(p) \in DOMAIN objects
        THEN Apply(p, End(Ok)) /\ objects' = MapDelete(objects, {Target(p)})
        ELSE Apply(p, End(NotFound)) /\ UNCHANGED objects
    /\ UNCHANGED <<req, sent, hist, types>>
    /\ UNCHANGED limiterVars

\* typeRepository.findOne(query) of deleteObjectType, getObjectType,
\* updateObjectType and duplicateObjectType
RespondTypeFindOne(p) ==
    /\ pc[p] = "typeFindOne"
    /\ \E o \in Outcomes :
        LET outcome == IF o = "rejected" THEN "rejected"
                       ELSE IF req[p].typeSlug \in types THEN "found"
                       ELSE "notfound"
        IN /\ Apply(p, AfterTypeFindOne(req[p], outcome))
           /\ Note(p, [hist[p] EXCEPT !.fetched = outcome])
    /\ UNCHANGED <<req, sent, types, objects>>
    /\ UNCHANGED limiterVars

\* deleteObjectType: objectRepository.findMany({ typeSlug, status: "any", limit: 1 })
RespondTypeObjects(p) ==
    /\ pc[p] = "typeObjects"
    /\ \E o \in Outcomes :
        LET n == Min(1, Cardinality(OfType(objects, req[p].typeSlug)))
        IN IF o = "rejected"
           THEN Apply(p, End(Rejected)) /\ UNCHANGED hist
           ELSE /\ Apply(p, AfterTypeObjects(req[p], n))
                /\ Note(p, [hist[p] EXCEPT !.returned = n])
    /\ UNCHANGED <<req, sent, types, objects>>
    /\ UNCHANGED limiterVars

\* typeRepository.delete: objectTypes.deleteOne(slug)
RespondTypeDelete(p) ==
    /\ pc[p] = "typeDelete"
    /\ \E o \in Outcomes :
        IF o = "rejected"
        THEN Apply(p, End(Rejected)) /\ UNCHANGED types
        ELSE IF req[p].typeSlug \in types
        THEN Apply(p, End(Ok)) /\ types' = types \ {req[p].typeSlug}
        ELSE Apply(p, End(NotFound)) /\ UNCHANGED types
    /\ UNCHANGED <<req, sent, hist, objects>>
    /\ UNCHANGED limiterVars

\* checkTypeSlugExists of createObjectType, validateTypeSlug and
\* duplicateObjectType: typeRepository.typeExists(slug)
RespondTypeSlugExists(p) ==
    /\ pc[p] = "typeSlugExists"
    /\ \E o \in Outcomes :
        IF o = "rejected"
        THEN /\ Apply(p, End(Rejected))
             /\ Note(p, [hist[p] EXCEPT !.typeExists = "error"])
        ELSE LET exists == NewTypeSlug(req[p]) \in types
             IN /\ Apply(p, AfterTypeSlugExists(req[p], exists))
                /\ Note(p, [hist[p] EXCEPT !.typeExists = IF exists THEN "true" ELSE "false"])
    /\ UNCHANGED <<req, sent, types, objects, media>>
    /\ UNCHANGED limiterVars

\* typeRepository.create: objectTypes.insertOne(typeData)
RespondTypeCreate(p) ==
    /\ pc[p] = "typeCreate"
    /\ \E o \in Outcomes :
        IF o = "rejected"
        THEN Apply(p, End(Rejected)) /\ UNCHANGED types
        ELSE Apply(p, End(Ok)) /\ types' = types \cup {NewTypeSlug(req[p])}
    /\ UNCHANGED <<req, sent, hist, objects, media>>
    /\ UNCHANGED limiterVars

\* typeRepository.update: objectTypes.updateOne(slug, updateData)
RespondTypeUpdate(p) ==
    /\ pc[p] = "typeUpdate"
    /\ \E o \in Outcomes :
        Apply(p, End(IF o = "rejected" THEN Rejected
                     ELSE IF req[p].typeSlug \in types THEN Ok ELSE NotFound))
    /\ UNCHANGED <<req, sent, hist, types, objects, media>>
    /\ UNCHANGED limiterVars

\* getObjectTypeStats resumed with the slugs of typeRepository.getObjectTypeStats:
\* Promise.all starts one branch for each slug, and each branch suspends at
\* its objectRepository.findMany
RespondTypeStats(p) ==
    /\ pc[p] = "typeStats"
    /\ \E o \in Outcomes :
        IF o = "rejected"
        THEN /\ Apply(p, End(Rejected))
             /\ UNCHANGED hist
        ELSE IF types = {}
        THEN /\ Apply(p, End(Ok))
             /\ UNCHANGED hist
        ELSE /\ pc' = [pc EXCEPT ![p] = "typeStatsBranches"]
             /\ calls' = [calls EXCEPT ![p] =
                            @ \o [i \in 1..Cardinality(types) |-> "objectRepository.findMany"]]
             /\ result' = result
             /\ Note(p, [hist[p] EXCEPT !.branches = [t \in types |-> "findMany"]])
    /\ UNCHANGED <<req, sent, types, objects, media>>
    /\ UNCHANGED limiterVars

\* one branch of getObjectTypeStats resumed: after findMany it awaits
\* typeRepository.findOne({ slug }), after findOne it is finished; the first
\* branch that rejects settles Promise.all
RespondTypeStatsBranch(p) ==
    /\ pc[p] = "typeStatsBranches"
    /\ \E t \in DOMAIN hist[p].branches : \E o \in Outcomes :
        LET b == hist[p].branches
            served == [b EXCEPT ![t] = "done"]
        IN /\ b[t] # "done"
           /\ IF o = "rejected"
              THEN Apply(p, End(Rejected)) /\ UNCHANGED hist
              ELSE IF b[t] = "findMany"
              THEN /\ Apply(p, Await("typeRepository.findOne", "typeStatsBranches"))
                   /\ Note(p, [hist[p] EXCEPT !.branches = [b EXCEPT ![t] = "findOne"]])
              ELSE IF t \notin types
              THEN Apply(p, End(NotFound)) /\ UNCHANGED hist
              ELSE /\ Apply(p, IF \A u \in DOMAIN b : served[u] = "done"
                               THEN End(Ok) ELSE Await("", "typeStatsBranches"))
                   /\ Note(p, [hist[p] EXCEPT !.branches = served])
    /\ UNCHANGED <<req, sent, types, objects, media>>
    /\ UNCHANGED limiterVars

\* mediaRepository.findOne(query) of getMedia, updateMedia, deleteMedia and
\* optimizeMedia
RespondMediaFindOne(p) ==
    /\ pc[p] = "mediaFindOne"
    /\ \E o \in Outcomes :
        LET outcome == IF o = "rejected" THEN "rejected"
                       ELSE IF req[p].id \in media THEN "found"
                       ELSE "notfound"
        IN /\ Apply(p, AfterMediaFindOne(req[p], outcome))
           /\ Note(p, [hist[p] EXCEPT !.fetched = outcome])
    /\ UNCHANGED <<req, sent, types, objects, media>>
    /\ UNCHANGED limiterVars

\* getMediaStats resumed after mediaRepository.getMediaStats
RespondMediaStats(p) ==
    /\ pc[p] = "mediaStats"
    /\ \E o \in Outcomes :
        Apply(p, IF o = "rejected" THEN End(Rejected)
                 ELSE Await("mediaRepository.findMany", "mediaFindMany"))
    /\ UNCHANGED <<req, sent, hist, types, objects, media>>
    /\ UNCHANGED limiterVars

\* mediaRepository.create: media.insertOne(mediaData)
RespondMediaCreate(p) ==
    /\ pc[p] = "mediaCreate"
    /\ \E o \in Outcomes :
        IF o = "rejected"
        THEN /\ Apply(p, End(Rejected))
             /\ UNCHANGED <<media, hist>>
        ELSE /\ FreeMediaIds(media) # {}
             /\ LET id == CHOOSE i \in FreeMediaIds(media) :
                              \A j \in FreeMediaIds(media) : i <= j
                IN /\ media' = media \cup {id}
                   /\ Note(p, [hist[p] EXCEPT !.inserted = id])
             /\ Apply(p, End(Ok))
    /\ UNCHANGED <<req, sent, types, objects>>
    /\ UNCHANGED limiterVars

\* mediaRepository.update: media.updateOne(id, updateData)
RespondMediaUpdate(p) ==
    /\ pc[p] = "mediaUpdate"
    /\ \E o \in Outcomes :
        Apply(p, End(IF o = "rejected" THEN Rejected
                     ELSE IF req[p].id \in media THEN Ok ELSE NotFound))
    /\ UNCHANGED <<req, sent, hist, types, objects, media>>
    /\ UNCHANGED limiterVars

\* mediaRepository.delete: media.deleteOne(id)
RespondMediaDelete(p) ==
    /\ pc[p] = "mediaDelete"
    /\ \E o \in Outcomes :
        IF o = "rejected"
        THEN Apply(p, End(Rejected)) /\ UNCHANGED media
        ELSE IF req[p].id \in media
        THEN Apply(p, End(Ok)) /\ media' = media \ {req[p].id}
        ELSE Apply(p, End(NotFound)) /\ UNCHANGED media
    /\ UNCHANGED <<req, sent, hist, types, objects>>
    /\ UNCHANGED limiterVars

RateIds == {RateId(op) : op \in ObjectOps \cup {"deleteObjectType"}}

\* the limiter after `used` calls of every service method at time 0
LimiterUsed(used) ==
    /\ now = 0
    /\ requests = [id \in (IF used = 0 THEN {} ELSE RateIds) |->
                     [count |-> used, resetTime |-> windowMs]]
    /\ shadow = requests
    /\ ghost = [id \in DOMAIN requests |-> [open |-> 0, calls |-> used, admitted |-> used]]
    /\ last = NoCall

\* the limiter fresh or with one request left to every method; the remote
\* store with any types, and no object or one
InitSvc ==
    /\ \E used \in {0, maxRequests - 1} : LimiterUsed(used)
    /\ pc = [p \in Proc |-> "idle"]
    /\ req = [p \in Proc |-> NoRequest]
    /\ result = [p \in Proc |-> NoResult]
    /\ calls = [p \in Proc |-> <<>>]
    /\ sent = [p \in Proc |-> NoStr]
    /\ hist = [p \in Proc |-> NoHist]
    /\ types \in SUBSET TypeSlugs
    /\ objects \in {EmptyMap} \cup {MapSet(EmptyMap, 1, [type |-> t, slug |-> SlugA]) : t \in types}
    /\ media = {}
    /\ fn = NoFn

SStart == \E p \in Proc : \E r \in Requests : Start(p, r) /\ UNCHANGED <<media, fn>>
STypeExists == \E p \in Proc : RespondTypeExists(p) /\ UNCHANGED <<media, fn>>
SLookup == \E p \in Proc : RespondLookup(p) /\ UNCHANGED <<media, fn>>
SCreate == \E p \in Proc : RespondCreate(p) /\ UNCHANGED <<media, fn>>
SFindOne == \E p \in Proc : RespondFindOne(p) /\ UNCHANGED <<media, fn>>
SFind == \E p \in Proc : RespondFind(p) /\ UNCHANGED <<media, fn>>
SResolve == \E p \in Proc : RespondResolve(p) /\ UNCHANGED <<media, fn>>
SUpdateOne == \E p \in Proc : RespondUpdateOne(p) /\ UNCHANGED <<media, fn>>
SDeleteOne == \E p \in Proc : RespondDeleteOne(p) /\ UNCHANGED <<media, fn>>
STypeFindOne == \E p \in Proc : RespondTypeFindOne(p) /\ UNCHANGED <<media, fn>>
STypeObjects == \E p \in Proc : RespondTypeObjects(p) /\ UNCHANGED <<media, fn>>
STypeDelete == \E p \in Proc : RespondTypeDelete(p) /\ UNCHANGED <<media, fn>>

NextSvc ==
    \/ SStart
    \/ STypeExists
    \/ SLookup
    \/ SCreate
    \/ SFindOne
    \/ SFind
    \/ SResolve
    \/ SUpdateOne
    \/ SDeleteOne
    \/ STypeFindOne
    \/ STypeObjects
    \/ STypeDelete

\* service calls of every kind over the remote store; the clock advances only
\* inside a denied checkAndConsume
SpecSvc == InitSvc /\ [][NextSvc]_vars

SStartCreate == \E p \in Proc : \E r \in CreateRequests : Start(p, r) /\ UNCHANGED <<media, fn>>

NextSvcClock ==
    \/ SStartCreate
    \/ STypeExists
    \/ SLookup
    \/ SCreate
    \/ LCleanup
    \/ LTick

\* createObject calls in flight while the clock advances and the sweep runs
SpecSvcClock == InitSvc /\ [][NextSvcClock]_vars

AllRateIds == {RateId(op) : op \in ObjectOps \cup TypeOps \cup MediaOps \cup {"getObjectStats"}}

\* as InitSvc, with every method's bucket seeded and the remote store holding
\* no media or one
InitEntry ==
    /\ now = 0
    /\ \E used \in {0, maxRequests - 1} :
        requests = [id \in (IF used = 0 THEN {} ELSE AllRateIds) |->
                      [count |-> used, resetTime |-> windowMs]]
    /\ shadow = requests
    /\ ghost = [id \in DOMAIN requests |->
                  [open |-> 0, calls |-> requests[id].count, admitted |-> requests[id].count]]
    /\ last = NoCall
    /\ pc = [p \in Proc |-> "idle"]
    /\ req = [p \in Proc |-> NoRequest]
    /\ result = [p \in Proc |-> NoResult]
    /\ calls = [p \in Proc |-> <<>>]
    /\ sent = [p \in Proc |-> NoStr]
    /\ hist = [p \in Proc |-> NoHist]
    /\ types \in SUBSET TypeSlugs
    /\ objects \in {EmptyMap} \cup {MapSet(EmptyMap, 1, [type |-> t, slug |-> SlugA]) : t \in types}
    /\ media \in {{}, {1}}
    /\ fn = NoFn

EStart == \E p \in Proc : \E r \in EntryRequests : Start(p, r) /\ UNCHANGED <<media, fn>>
ETypeSlugExists == \E p \in Proc : RespondTypeSlugExists(p) /\ UNCHANGED fn
ETypeCreate == \E p \in Proc : RespondTypeCreate(p) /\ UNCHANGED fn
ETypeUpdate == \E p \in Proc : RespondTypeUpdate(p) /\ UNCHANGED fn
ETypeStats == \E p \in Proc : RespondTypeStats(p) /\ UNCHANGED fn
ETypeStatsBranch == \E p \in Proc : RespondTypeStatsBranch(p) /\ UNCHANGED fn
EMediaFindOne == \E p \in Proc : RespondMediaFindOne(p) /\ UNCHANGED fn
EMediaStats == \E p \in Proc : RespondMediaStats(p) /\ UNCHANGED fn
EMediaCreate == \E p \in Proc : RespondMediaCreate(p) /\ UNCHANGED fn
EMediaUpdate == \E p \in Proc : RespondMediaUpdate(p) /\ UNCHANGED fn
EMediaDelete == \E p \in Proc : RespondMediaDelete(p) /\ UNCHANGED fn

NextEntry ==
    \/ EStart
    \/ STypeExists
    \/ SLookup
    \/ SCreate
    \/ SFindOne
    \/ SFind
    \/ SResolve
    \/ SUpdateOne
    \/ SDeleteOne
    \/ STypeFindOne
    \/ STypeObjects
    \/ STypeDelete
    \/ ETypeSlugExists
    \/ ETypeCreate
    \/ ETypeUpdate
    \/ ETypeStats
    \/ ETypeStatsBranch
    \/ EMediaFindOne
    \/ EMediaStats
    \/ EMediaCreate
    \/ EMediaUpdate
    \/ EMediaDelete

\* every entry point of ObjectService, TypeService and MediaService over the
\* remote store
SpecEntry == InitEntry /\ [][NextEntry]_vars

\* the uploads: names with and without extension, badly formed names, and
\* payloads that are empty, blank, small, and just below, at, just above and
\* well above 50 MiB once decoded
UploadFilenames ==
    {<<stem, extension>> : stem \in {"photo", "virus", "my-file"},
                           extension \in {"png", "PNG", "exe", "constructor"}}
    \cup {<<"photo">>, <<"">>, <<" ">>, <<"p!", "png">>, <<"photo", "p!">>, <<"", "png">>,
          <<"photo", "virus", "exe">>}
UploadChars == {0, 4, 69905066, 69905067, 69905068, 70604118, 97867094}
UploadFiles == {[chars |-> c, spaces |-> w] : c \in UploadChars, w \in {0, 1}}
UploadRequests == {UploadRequest(f, d) : f \in UploadFilenames, d \in UploadFiles}

MUpload == \E r \in UploadRequests : Start(1, r) /\ UNCHANGED <<media, fn>>

NextMedia ==
    \/ MUpload
    \/ EMediaCreate

\* one uploadMedia call, from any filename and payload of UploadRequests
SpecMedia == InitEntry /\ [][NextMedia]_vars

----------------------------------------------------------------------------
(* The tool dispatcher: the handler of tools/call requests in server.ts. One *)
(* step runs the handler up to the first await of the service method it      *)
(* reaches.                                                                   *)

\* the keys of toolValidationMap, which are the cases of executeToolHandler
RegisteredTools ==
    {"list_objects", "get_object", "create_object", "update_object", "delete_object",
     "list_object_types", "upload_media", "list_media", "delete_media", "search_objects"}
\* names that are no key of toolValidationMap but are found on its prototype
InheritedNames == {"constructor"}
ToolNames == RegisteredTools \cup {"nope"} \cup InheritedNames

\* the service method each tool handler calls
OpOfTool(name) ==
    CASE name = "list_objects" -> "listObjects"
      [] name = "get_object" -> "getObject"
      [] name = "create_object" -> "createObject"
      [] name = "update_object" -> "updateObject"
      [] name = "delete_object" -> "deleteObject"
      [] name = "list_object_types" -> "listObjectTypes"
      [] name = "upload_media" -> "uploadMedia"
      [] name = "list_media" -> "listMedia"
      [] name = "delete_media" -> "deleteMedia"
      [] name = "search_objects" -> "searchObjects"
      [] OTHER -> "none"
\* the arguments of a call: what the handler hands to the service once they
\* are parsed, and whether the tool's schema accepts them
ToolInputs(name) ==
    IF name \in RegisteredTools
    THEN {[request |-> r, valid |-> v] : r \in {e \in EntryRequests : e.op = OpOfTool(name)},
                                        v \in BOOLEAN}
    ELSE {[request |-> NoRequest, valid |-> v] : v \in BOOLEAN}

\* an error that is no BaseError: it has a name and a message, no statusCode
\* and no context
RawThrown(name, message) == [Thrown(name, 0) EXCEPT !.message = message]
\* new UnknownToolError(toolName)
UnknownToolError(toolName) ==
    [Thrown("UnknownToolError", 400) EXCEPT !.message = <<"Unknown tool:", toolName>>]

\* validateToolInput(toolName, input): Ok when it returns the parsed input
validateToolInput(toolName, input) ==
    IF toolName \in InheritedNames
    THEN RawThrown("TypeError", <<"schema.parse is not a function">>)
    ELSE IF toolName \notin RegisteredTools
    THEN RawThrown("Error", <<"Unknown tool:", toolName>>)
    ELSE IF ~input.valid THEN RawThrown("ZodError", <<"invalid input">>)
    ELSE Ok

\* mutant: the input is handed on without validateToolInput
BeforeServiceUnvalidated(toolName, input) ==
    IF toolName \notin RegisteredTools THEN UnknownToolError(toolName) ELSE Ok
\* the handler from validateToolInput to the switch of executeToolHandler:
\* the error thrown before any service method is called, or Ok
BeforeService(toolName, input) ==
    IF validateToolInput(toolName, input) # Ok THEN validateToolInput(toolName, input)
    ELSE IF toolName \notin RegisteredTools THEN UnknownToolError(toolName)
    ELSE Ok

ToolStart(p, name, input) ==
    /\ pc[p] = "idle"
    /\ \E t2 \in ClockReads :
        LET id1 == "tool_" \o name
            r == input.request
            d1 == checkAndConsume(requests, id1, now, t2)
            s1 == checkAndConsume(shadow, id1, now, t2)
            early == BeforeService(name, input)
        IN IF ~d1.allowed \/ early # Ok
           THEN /\ Consume(id1, t2)
                /\ Apply(p, End(IF ~d1.allowed THEN Thrown("RateLimitError", 429) ELSE early))
                /\ Note(p, [NoHist EXCEPT !.tool = name, !.valid = input.valid,
                                          !.stage = IF ~d1.allowed THEN "checkAndConsume"
                                                    ELSE "try"])
           ELSE LET id2 == RateId(r.op)
                    d2 == checkAndConsume(d1.requests, id2, now, t2)
                    s2 == checkAndConsume(s1.requests, id2, now, t2)
                    others == {q \in Proc \ {p} : InFlight(q)}
                IN /\ requests' = d2.requests
                   /\ shadow' = s2.requests
                   /\ ghost' = GhostCall(GhostCall(ghost, id1, now, TRUE), id2, now, d2.allowed)
                   /\ last' = CallRecord("checkAndConsume", id2, now,
                                         IF d2.allowed THEN now ELSE t2,
                                         Ret(d2.allowed, 0, NoInfo, d2.error),
                                         Ret(s2.allowed, 0, NoInfo, s2.error), d2.requests)
                   /\ now' = IF d2.allowed THEN now ELSE t2
                   /\ Apply(p, Admit(d2.allowed, r))
                   /\ hist' = [q \in Proc |->
                                 IF q = p
                                 THEN [NoHist EXCEPT !.tool = name, !.stage = "try",
                                          !.valid = input.valid,
                                          !.concurrent = IF d2.allowed THEN others ELSE {}]
                                 ELSE IF d2.allowed /\ q \in others
                                 THEN [hist[q] EXCEPT !.concurrent = @ \cup {p}]
                                 ELSE hist[q]]
    /\ req' = [req EXCEPT ![p] = input.request]
    /\ UNCHANGED <<sent, types, objects>>

\* what the caller of the handler receives: the value returned by the try
\* block or by the catch block, or the exception that leaves the handler
Returned(res) == [form |-> "returned", isError |-> FALSE, text |-> <<"result">>]
Caught(error) == [form |-> "returned", isError |-> TRUE, text |-> <<"Error:">> \o error.message]
Escaped(error) ==
    [form |-> "thrown", name |-> error.name, statusCode |-> error.statusCode,
     message |-> error.message, context |-> [slug |-> error.slug, typeSlug |-> error.typeSlug]]
Reply(p) ==
    IF hist[p].stage = "checkAndConsume" THEN Escaped(result[p])
    ELSE IF result[p].name = "ok" THEN Returned(result[p])
    ELSE Caught(result[p])

ToolIds == {"tool_" \o name : name \in ToolNames}
\* the buckets of the tools and the buckets of the service methods, each group
\* fresh or with one request left; the remote store as in InitEntry
InitTool ==
    /\ now = 0
    /\ \E usedTool, usedService \in {0, maxRequests - 1} :
        requests = [id \in (IF usedTool = 0 THEN {} ELSE ToolIds)
                            \cup (IF usedService = 0 THEN {} ELSE AllRateIds) |->
                      [count |-> IF id \in ToolIds THEN usedTool ELSE usedService,
                       resetTime |-> windowMs]]
    /\ shadow = requests
    /\ ghost = [id \in DOMAIN requests |->
                  [open |-> 0, calls |-> requests[id].count, admitted |-> requests[id].count]]
    /\ last = NoCall
    /\ pc = [p \in Proc |-> "idle"]
    /\ req = [p \in Proc |-> NoRequest]
    /\ result = [p \in Proc |-> NoResult]
    /\ calls = [p \in Proc |-> <<>>]
    /\ sent = [p \in Proc |-> NoStr]
    /\ hist = [p \in Proc |-> NoHist]
    /\ types \in SUBSET TypeSlugs
    /\ objects \in {EmptyMap} \cup {MapSet(EmptyMap, 1, [type |-> t, slug |-> SlugA]) : t \in types}
    /\ media \in {{}, {1}}
    /\ fn = NoFn

TStart ==
    \E p \in Proc : \E name \in ToolNames : \E input \in ToolInputs(name) :
        ToolStart(p, name, input) /\ UNCHANGED <<media, fn>>

NextTool ==
    \/ TStart
    \/ STypeExists
    \/ SLookup
    \/ SCreate
    \/ SFindOne
    \/ SFind
    \/ SResolve
    \/ SUpdateOne
    \/ SDeleteOne
    \/ EMediaFindOne
    \/ EMediaCreate
    \/ EMediaDelete

\* tools/call requests in flight over the services and the remote store
SpecTool == InitTool /\ [][NextTool]_vars

\* the calls of one tool, one after another and together, under the advancing
\* clock: the limiter starts empty, and a call that has been answered leaves
\* its place to the next request
OneTool == "list_objects"

InitToolClock == InitTool /\ requests = EmptyMap

TStartOne ==
    \E p \in Proc : \E input \in ToolInputs(OneTool) :
        ToolStart(p, OneTool, input) /\ UNCHANGED <<media, fn>>

\* the handler has returned or thrown: the server takes the next request
Answered(p) ==
    /\ pc[p] = "done"
    /\ pc' = [pc EXCEPT ![p] = "idle"]
    /\ req' = [req EXCEPT ![p] = NoRequest]
    /\ result' = [result EXCEPT ![p] = NoResult]
    /\ calls' = [calls EXCEPT ![p] = <<>>]
    /\ sent' = [sent EXCEPT ![p] = NoStr]
    /\ hist' = [hist EXCEPT ![p] = NoHist]
    /\ UNCHANGED <<types, objects, media, fn>>
    /\ UNCHANGED limiterVars

TAnswered == \E p \in Proc : Answered(p)

NextToolClock ==
    \/ TStartOne
    \/ STypeExists
    \/ SFind
    \/ TAnswered
    \/ LTick

SpecToolClock == InitToolClock /\ [][NextToolClock]_vars

----------------------------------------------------------------------------
(* Claims about the limiter, checked under Spec *)

IsConsumingCall == last.op \in {"isAllowed", "checkAndConsume"}
\* the position of the last call among the calls of its window, counted up to
\* maxRequests + 1
CallIndex == IF last.inWindow THEN Min(last.before.calls + 1, maxRequests + 1) ELSE 1

\* C1: whatever was called on other identifiers, the first maxRequests calls
\* of isAllowed(identifier) inside one window return true, and the
\* (maxRequests+1)-th call and every later call inside that window return false.
C1_FirstMaxAdmittedRestDenied ==
    IsConsumingCall => (last.ret.allowed <=> CallIndex <= maxRequests)

\* C1 witness: the (maxRequests+1)-th call of a window was denied while the
\* other identifier had calls of its own.
C1_Witness ==
    /\ last.op = "isAllowed"
    /\ last.inWindow
    /\ last.before.calls = maxRequests
    /\ ~last.ret.allowed
    /\ \E other \in DOMAIN ghost : other # last.id /\ ghost[other].calls >= 1

\* C2: a call of isAllowed later than windowMs after the request that opened
\* the identifier's window returns true and leaves the entry
\* {count: 1, resetTime: now + windowMs}, whatever the count was before.
C2_ExpiredWindowRestarts ==
    (IsConsumingCall /\ last.before.open >= 0 /\ last.at > last.before.open + windowMs)
        => /\ last.ret.allowed
           /\ last.entry = [count |-> 1, resetTime |-> last.at + windowMs]

\* C2 witness: the identifier was being denied (its entry, not swept, stood at
\* maxRequests) and its next call came after the window.
C2_Witness ==
    /\ last.op = "isAllowed"
    /\ last.before.calls = maxRequests + 1
    /\ last.entryBefore.count = maxRequests
    /\ last.at > last.before.open + windowMs
    /\ last.ret.allowed

\* C4: every call returns what it would return had the sweep never run, and
\* the sweep removes no entry whose resetTime has not passed.
C4_SweepUnobservable ==
    [][/\ last'.ret = last'.sret
       /\ last' = last =>
            \A id \in (DOMAIN requests) \ (DOMAIN requests') : now > requests[id].resetTime]_vars

\* C4 witness: a call was answered from a map from which the sweep had removed
\* the identifier's entry, which the never-swept limiter still holds.
C4_Witness ==
    /\ last.op = "getRateLimitInfo"
    /\ last.id \notin DOMAIN requests
    /\ last.id \in DOMAIN shadow
    /\ last.at = now

\* C5: when isAllowed denies, checkAndConsume raises RateLimitError (429)
\* carrying the identifier, limit = maxRequests, remaining = 0, the entry's
\* resetTime and retryAfter = max(0, resetTime - now); when isAllowed admits,
\* it returns normally and one unit is consumed.
C5_DeniedErrorCarriesEntry ==
    last.op = "checkAndConsume" =>
        IF ~last.ret.allowed
        THEN /\ last.ret.error.name = "RateLimitError"
             /\ last.ret.error.statusCode = 429
             /\ last.ret.error.identifier = last.id
             /\ last.ret.error.context.limit = maxRequests
             /\ last.ret.error.context.remaining = 0
             /\ last.ret.error.context.resetTime = last.entryBefore.resetTime
             /\ last.ret.error.context.retryAfter
                    = Max(0, last.entryBefore.resetTime - last.at2)
        ELSE /\ last.ret.error = NoError
             /\ last.entry.count = IF last.inWindow THEN last.entryBefore.count + 1 ELSE 1

\* C6: getRemainingRequests(identifier) is maxRequests when the identifier has
\* no window or its window is over, maxRequests - N after N admitted requests
\* of the current window, never negative, and leaves the map as it was.
C6_RemainingIsMaxMinusAdmitted ==
    [][(last' # last /\ last'.op = "getRemainingRequests")
         => /\ last'.ret.value = IF last'.inWindow
                                 THEN maxRequests - last'.before.admitted
                                 ELSE maxRequests
            /\ last'.ret.value >= 0
            /\ requests' = requests]_vars

\* C6 witness: remaining is 0 after maxRequests admitted requests and a denied one.
C6_Witness ==
    /\ last.op = "getRemainingRequests"
    /\ last.inWindow
    /\ last.before.admitted = maxRequests
    /\ last.before.calls = maxRequests + 1
    /\ last.ret.value = 0

----------------------------------------------------------------------------
(* Claims about the service calls *)

Invoked(p, method) == \E i \in 1..Len(calls[p]) : calls[p][i] = method
TimesInvoked(p, method) == Cardinality({i \in 1..Len(calls[p]) : calls[p][i] = method})

\* C3: whatever the interleaving of the in-flight calls and of the sweep, the
\* calls admitted for one identifier within one window never exceed
\* maxRequests. Checked under SpecSvcClock.
C3_AdmittedNeverExceedMax ==
    \A id \in DOMAIN ghost : ghost[id].admitted <= maxRequests

\* C3 witness: a createObject call was denied while an admitted one was still
\* in flight.
C3_Witness ==
    \E p, q \in Proc :
        /\ result[p].name = "RateLimitError"
        /\ InFlight(q)
        /\ req[q].op = req[p].op
        /\ ghost[RateId(req[p].op)].admitted = maxRequests

\* C7: a service call whose typeExists reports false fails with
\* ValidationError (400), and typeExists is the only repository method it has
\* invoked: no lookup, no create, no other object-repository call.
\* Checked under SpecSvc.
C7_MissingTypeStopsTheCall ==
    \A p \in Proc :
        hist[p].typeExists = "false"
            => /\ result[p].name = "ValidationError"
               /\ result[p].statusCode = 400
               /\ calls[p] = <<"typeRepository.typeExists">>

\* C7 witness: a createObject and a call of another kind both stopped at a
\* type that does not exist.
C7_Witness ==
    \E p, q \in Proc :
        /\ req[p].op = "createObject"
        /\ req[q].op \in ObjectOps \ {"createObject"}
        /\ hist[p].typeExists = "false" /\ hist[q].typeExists = "false"
        /\ result[p].name = "ValidationError" /\ result[q].name = "ValidationError"

\* C8: a createObject whose slug (supplied or derived) is held by an object of
\* the type when the uniqueness lookup is made fails with ValidationError
\* carrying slug and typeSlug, and create is not invoked; when the lookup
\* reports not found, create is invoked exactly once, with that slug.
\* Checked under SpecSvc.
C8_TakenSlugIsRefused ==
    \A p \in Proc :
        (req[p].op = "createObject" /\ hist[p].lookup # "none")
            => /\ hist[p].existed
                    => /\ result[p] = ValidationError(sent[p], req[p].typeSlug)
                       /\ ~Invoked(p, "objectRepository.create")
               /\ hist[p].lookup = "notfound"
                    => /\ TimesInvoked(p, "objectRepository.create") = 1
                       /\ sent[p] = SettledSlug(req[p])

\* C9: of two createObject calls in flight together with the same typeSlug and
\* slug, both told by the lookup that the slug is free, at most one invokes
\* the remote create. Checked under SpecSvc.
C9_OneCreatePerSlug ==
    \A p, q \in Proc :
        (/\ p # q
         /\ req[p].op = "createObject" /\ req[q].op = "createObject"
         /\ req[p].typeSlug = req[q].typeSlug
         /\ sent[p] # NoStr /\ sent[p] = sent[q]
         /\ q \in hist[p].concurrent /\ p \in hist[q].concurrent
         /\ hist[p].lookup = "notfound" /\ hist[q].lookup = "notfound")
            => ~(Invoked(p, "objectRepository.create") /\ Invoked(q, "objectRepository.create"))

\* C10: a deleteObjectType whose object query returns an object fails with
\* ValidationError and never invokes typeRepository.delete; when the type was
\* fetched and the query returns no object, delete is invoked once, after the
\* fetch and the query. Checked under SpecSvc.
C10_TypeWithObjectsIsKept ==
    \A p \in Proc :
        req[p].op = "deleteObjectType"
            => /\ hist[p].returned >= 1
                    => /\ result[p].name = "ValidationError"
                       /\ result[p].statusCode = 400
                       /\ ~Invoked(p, "typeRepository.delete")
               /\ (hist[p].fetched = "found" /\ hist[p].returned = 0)
                    => calls[p] = <<"typeRepository.findOne", "objectRepository.findMany",
                                    "typeRepository.delete">>
               /\ Invoked(p, "typeRepository.delete") => hist[p].returned = 0

\* C10 witness: the delete of a type was refused because an object of the type
\* was returned.
C10_Witness ==
    \E p \in Proc :
        /\ req[p].op = "deleteObjectType"
        /\ hist[p].returned = 1
        /\ result[p].name = "ValidationError"
        /\ req[p].typeSlug \in types

\* C11: whatever the interleaving of deleteObjectType(T) with createObject calls
\* of type T, an object created through the service is never held by the
\* remote store while its type has been deleted from it.
\* Checked under SpecSvc.
C11_NoObjectOfDeletedType ==
    \A p \in Proc :
        (/\ req[p].op = "createObject"
         /\ hist[p].inserted \in DOMAIN objects
         /\ objects[hist[p].inserted].type = req[p].typeSlug)
            => req[p].typeSlug \in types

----------------------------------------------------------------------------
(* Claims about errors, checked under SpecErr *)

\* C16: when the remote lookup returns no entity, the findOne of the object,
\* media and type repositories throws a NotFound error (404) of that resource
\* kind carrying the identifier of the query (the id, or the slug and type).
C16_NotFoundCarriesIdentifier ==
    fn.op = "findOne" =>
        /\ fn.out.statusCode = 404
        /\ fn.kind = "object" =>
              /\ fn.out.name = "CosmicObjectNotFoundError"
              /\ "id" \in DOMAIN fn.query => fn.out.context.identifier = fn.query.id
              /\ "id" \notin DOMAIN fn.query =>
                    /\ fn.out.context.identifier = fn.query.slug
                    /\ fn.out.context.type = fn.query.typeSlug
        /\ fn.kind = "media" =>
              /\ fn.out.name = "CosmicMediaNotFoundError"
              /\ fn.out.context.mediaId = fn.query.id
        /\ fn.kind = "type" =>
              \E k \in DOMAIN fn.out.context : fn.out.context[k] = fn.query.slug

StatusOfClass(class) ==
    CASE class = "notFound" -> 404
      [] class = "auth" -> 401
      [] class = "quota" -> 429
      [] class = "validation" -> 400
      [] class = "connection" -> 503
      [] class = "none" -> 500
Matches(message, class) ==
    CASE class = "notFound" -> includes(message, "not found") \/ includes(message, "404")
      [] class = "auth" -> includes(message, "unauthorized") \/ includes(message, "401")
      [] class = "quota" -> includes(message, "quota") \/ includes(message, "429")
      [] class = "validation" -> includes(message, "validation") \/ includes(message, "400")
      [] class = "connection" -> includes(message, "network") \/ includes(message, "connection")
Priority == <<"notFound", "auth", "quota", "validation", "connection">>

C18_CaseInsensitive ==
    (fn.op = "createCosmicError" /\ fn.error.isError) =>
        fn.out.statusCode
            = createCosmicError(RawError(toLowerCaseMessage(fn.error.message)),
                                fn.context).statusCode

----------------------------------------------------------------------------
(* Claims about the entry points of the services, checked under SpecEntry *)

MutatingOps == {"updateObject", "deleteObject", "updateMedia", "deleteMedia"}
FetchOf(op) ==
    IF op \in {"updateObject", "deleteObject"} THEN "objectRepository.findOne"
    ELSE "mediaRepository.findOne"
MutationOf(op) ==
    CASE op = "updateObject" -> "objectRepository.update"
      [] op = "deleteObject" -> "objectRepository.delete"
      [] op = "updateMedia" -> "mediaRepository.update"
      [] op = "deleteMedia" -> "mediaRepository.delete"
\* the awaits inside the mutating repository methods
MutatingPcs == {"resolveUpdate", "resolveDelete", "updateOne", "deleteOne",
                "mediaUpdate", "mediaDelete"}
FirstIndex(p, method) ==
    CHOOSE i \in 1..Len(calls[p]) :
        calls[p][i] = method /\ \A j \in 1..(i - 1) : calls[p][j] # method

\* C12: updateObject, deleteObject, updateMedia and deleteMedia fetch the
\* target with findOne before they mutate. A fetch that fails (not found or
\* rejected) ends the call with that error and the repository's update/delete
\* is never invoked; a fetch that succeeds is followed by exactly one
\* invocation of the repository's update/delete, which comes after the fetch,
\* and the remote update/delete is reached only inside that invocation.
C12_FetchBeforeMutation ==
    \A p \in Proc :
        req[p].op \in MutatingOps =>
            LET fetch == FetchOf(req[p].op)
                mutation == MutationOf(req[p].op)
            IN /\ hist[p].fetched \in {"notfound", "rejected"}
                    => /\ pc[p] = "done"
                       /\ result[p] = IF hist[p].fetched = "notfound" THEN NotFound
                                      ELSE Rejected
                       /\ ~Invoked(p, mutation)
               /\ hist[p].fetched = "found" => TimesInvoked(p, mutation) = 1
               /\ Invoked(p, mutation)
                    => /\ hist[p].fetched = "found"
                       /\ TimesInvoked(p, mutation) = 1
                       /\ TimesInvoked(p, fetch) = 1
                       /\ FirstIndex(p, fetch) < FirstIndex(p, mutation)
               /\ pc[p] \in MutatingPcs => Invoked(p, mutation)

\* C12 witness: an updateObject ended by a fetch that found nothing, next to a
\* deleteMedia whose fetch found the media and whose delete has been served.
C12_Witness ==
    \E p, q \in Proc :
        /\ req[p].op = "updateObject" /\ hist[p].fetched = "notfound"
        /\ result[p] = NotFound
        /\ req[q].op = "deleteMedia" /\ hist[q].fetched = "found"
        /\ calls[q] = <<"mediaRepository.findOne", "mediaRepository.delete">>
        /\ result[q] = Ok /\ 1 \notin media

\* C13: every entry point of the three services starts with checkAndConsume
\* on the identifier of its operation, before any repository method is
\* invoked; when checkAndConsume denies, the call ends at once with
\* RateLimitError (429) and invokes no repository method, so no remote call
\* is made for it.
C13_LimiterFirst ==
    [][\A p \in Proc :
        /\ pc[p] = "idle" => calls[p] = <<>>
        /\ (pc[p] = "idle" /\ pc'[p] # "idle")
            => /\ req'[p].op \in ObjectOps \cup TypeOps \cup MediaOps \cup {"getObjectStats"}
               /\ last'.op = "checkAndConsume"
               /\ last'.id = RateId(req'[p].op)
               /\ ~last'.ret.allowed
                    => /\ pc'[p] = "done"
                       /\ result'[p] = Thrown("RateLimitError", 429)
                       /\ calls'[p] = <<>>
               /\ last'.ret.allowed => result'[p].name # "RateLimitError"
        /\ result[p].name = "RateLimitError"
            => pc'[p] = "done" /\ calls'[p] = <<>> /\ result'[p] = result[p]
      ]_vars

\* C13 witness: getObjectStats and getMediaStats consume the same identifier;
\* the first took the last request of the window and reached its repository,
\* the second was denied and invoked nothing.
C13_Witness ==
    \E p, q \in Proc :
        /\ req[p].op = "getObjectStats" /\ calls[p] # <<>>
        /\ req[q].op = "getMediaStats" /\ calls[q] = <<>>
        /\ result[q] = Thrown("RateLimitError", 429)
        /\ ~last.ret.allowed /\ last.id = "get_stats"
----------------------------------------------------------------------------
(* Claims about uploadMedia, checked under SpecMedia *)

\* the extensions of the table in getMimeTypeFromFilename
ExtensionTable == {"jpg", "jpeg", "png", "gif", "webp", "svg", "mp4", "webm", "mp3", "wav",
                   "pdf", "txt", "csv", "json"}
\* an uploadMedia call that the limiter admitted
Uploading(p) ==
    /\ req[p].op = "uploadMedia"
    /\ pc[p] # "idle"
    /\ result[p].name # "RateLimitError"
WellFormedUpload(p) ==
    /\ validateFileData(req[p].fileData) = NoProblem
    /\ validateFilename(req[p].filename) = NoProblem
ExtensionOf(p) == toLowerCasePart(req[p].filename[Len(req[p].filename)])

NearestMB(bytes) ==
    CHOOSE n \in 0..200 : (2 * n - 1) * 524288 <= bytes /\ bytes < (2 * n + 1) * 524288
SizeMessage(bytes) ==
    <<"File size (", ToString(NearestMB(bytes)), "MB) exceeds maximum allowed size (",
      "50", "MB)">>

----------------------------------------------------------------------------
(* Claims about the tool dispatcher, checked under SpecTool *)

\* a tool call that has ended in a failure
ToolFailed(p) == hist[p].tool # "" /\ pc[p] = "done" /\ result[p].name # "ok"

\* C14: a tool call whose name is not one of the ten registered tools, once
\* past the dispatcher's rate limit, fails with UnknownToolError (statusCode
\* 400), and no repository method is invoked for it.
C14_UnknownToolIsRefused ==
    \A p \in Proc :
        ( /\ hist[p].tool # "" /\ hist[p].tool \notin RegisteredTools
          /\ hist[p].stage # "checkAndConsume" )
        => /\ pc[p] = "done"
           /\ result[p].name = "UnknownToolError"
           /\ result[p].statusCode = 400
           /\ calls[p] = <<>>

\* C15: every tool call that fails ends with a typed error (one with a
\* statusCode), and every failure reaches the caller in the same form, which
\* carries message, statusCode and context.
C15_OneTypedErrorForm ==
    \A p \in Proc :
        ToolFailed(p)
        => /\ result[p].statusCode # 0
           /\ {"message", "statusCode", "context"} \subseteq DOMAIN Reply(p)
           /\ \A q \in Proc : ToolFailed(q) => Reply(q).form = Reply(p).form
----------------------------------------------------------------------------
(* Claims about TypeService, checked under SpecEntry *)

\* C21: a validateTypeSlug call that returns gives, for a badly formed slug,
\* isValid = false, isAvailable = false and no suggestions, and has invoked
\* no repository method; for a well-formed slug that exists, isValid = true,
\* isAvailable = false and the eight suggestions slug-2 .. slug-5, slug-new,
\* slug-v2, slug-alt, slug-copy in that order; for a well-formed slug that is
\* free, isValid = true, isAvailable = true and no suggestions.
C21_ValidateTypeSlug ==
    \A p \in Proc :
        (req[p].op = "validateTypeSlug" /\ pc[p] = "done" /\ result[p].name = "ok")
        => LET slug == req[p].typeSlug
               v == result[p].value
           IN IF ~isValidSlugFormat(SlugChars(slug))
              THEN /\ v = [isValid |-> FALSE, isAvailable |-> FALSE, suggestions |-> <<>>]
                   /\ calls[p] = <<>>
              ELSE IF hist[p].typeExists = "true"
              THEN v = [isValid |-> TRUE, isAvailable |-> FALSE,
                        suggestions |->
                            <<slug \o "-2", slug \o "-3", slug \o "-4", slug \o "-5",
                              slug \o "-new", slug \o "-v2", slug \o "-alt",
                              slug \o "-copy">>]
              ELSE /\ hist[p].typeExists = "false"
                   /\ v = [isValid |-> TRUE, isAvailable |-> TRUE, suggestions |-> <<>>]

\* C21 witness: the slug "t1" was found taken and came back with its eight
\* suggestions, next to a badly formed slug that was answered without a
\* repository call.
C21_Witness ==
    \E p, q \in Proc :
        /\ req[p].op = "validateTypeSlug" /\ req[p].typeSlug = "t1"
        /\ result[p].name = "ok" /\ hist[p].typeExists = "true"
        /\ Len(result[p].value.suggestions) = 8
        /\ result[p].value.suggestions[1] = "t1-2"
        /\ req[q].op = "validateTypeSlug" /\ req[q].typeSlug = "T!"
        /\ result[q].name = "ok" /\ calls[q] = <<>>

-----------------------------------------------------------------------------
(* C22: slugs derived from titles                                           *)

SlugShaped(str) ==
    /\ \A i \in 1..Len(str) : str[i] \in LowerLetters \cup Digits \cup {"-"}
    /\ str # <<>> => (str[1] # "-" /\ str[Len(str)] # "-")
    /\ \A i \in 1..(Len(str) - 1) : ~(str[i] = "-" /\ str[i + 1] = "-")

HelloWorldSlug == <<"h", "e", "l", "l", "o", "-", "w", "o", "r", "l", "d">>
TestObjectTitleSlug == <<"t", "e", "s", "t", "-", "o", "b", "j", "e", "c", "t", "-",
                         "t", "i", "t", "l", "e">>

\* C22: generateSlugFromTitle applied to its own result gives that result
\* again, and the result holds only a-z, 0-9 and '-', with no hyphen at
\* either end and no two hyphens in a row; "Hello, World!!" gives
\* "hello-world" and "Test Object Title" gives "test-object-title".
C22_SlugIsIdempotentAndClean ==
    fn.op = "generateSlugFromTitle"
    => /\ fn.again = fn.out
       /\ SlugShaped(fn.out)
       /\ fn.title = HelloWorld => fn.out = HelloWorldSlug
       /\ fn.title = TestObjectTitle => fn.out = TestObjectTitleSlug

\* C22 witness: a title with blanks, a capital, punctuation and hyphens at
\* both ends was turned into a slug.
C22_Witness ==
    /\ fn.op = "generateSlugFromTitle"
    /\ fn.title = <<"-", "B", " ", "!">>
    /\ fn.out = <<"b">>
    /\ fn.again = <<"b">>

-----------------------------------------------------------------------------
(* C23: the plural of a new object type                                     *)

Consonants == LowerLetters \ Vowels

\* the rules as the specification words them, first match wins
PluralByRule(word) ==
    IF Len(word) >= 2 /\ word[Len(word)] = "y" /\ word[Len(word) - 1] \in Consonants
    THEN SubSeq(word, 1, Len(word) - 1) \o <<"i", "e", "s">>
    ELSE IF word # <<>> /\ word[Len(word)] \in {"s", "x", "z"}
    THEN word \o <<"e", "s">>
    ELSE IF Len(word) >= 2 /\ word[Len(word)] = "h" /\ word[Len(word) - 1] \in {"s", "c"}
    THEN word \o <<"e", "s">>
    ELSE IF Len(word) >= 2 /\ word[Len(word) - 1] = "f" /\ word[Len(word)] = "e"
    THEN SubSeq(word, 1, Len(word) - 2) \o <<"v", "e", "s">>
    ELSE IF word # <<>> /\ word[Len(word)] = "f"
    THEN SubSeq(word, 1, Len(word) - 1) \o <<"v", "e", "s">>
    ELSE word \o <<"s">>

\* C23: when createObjectType is given no plural, the plural it passes on is
\* the lower-cased, trimmed title changed by the first rule that matches:
\* consonant + 'y' becomes 'ies'; an ending s, sh, ch, x or z gets 'es';
\* 'fe' is replaced by 'ves'; 'f' is replaced by 'ves'; otherwise 's' is
\* added.
C23_PluralByRule ==
    (fn.op = "createObjectType" /\ fn.plural = <<>>)
    => fn.out = PluralByRule(trim(toLowerCase(fn.title)))

\* the five words the specification quotes
PluralExamples ==
    (fn.op = "createObjectType" /\ fn.plural = <<>>)
    => /\ fn.title = Category => fn.out = <<"c", "a", "t", "e", "g", "o", "r", "i", "e", "s">>
       /\ fn.title = Box => fn.out = <<"b", "o", "x", "e", "s">>
       /\ fn.title = Leaf => fn.out = <<"l", "e", "a", "v", "e", "s">>
       /\ fn.title = Life => fn.out = <<"l", "i", "v", "e", "s">>
       /\ fn.title = Post => fn.out = <<"p", "o", "s", "t", "s">>

\* the rules hold for every title made of letters only
PluralOfLetterTitles ==
    (/\ fn.op = "createObjectType" /\ fn.plural = <<>>
     /\ \A i \in 1..Len(fn.title) : fn.title[i] \in LowerLetters \cup UpperLetters)
    => fn.out = PluralByRule(trim(toLowerCase(fn.title)))

-----------------------------------------------------------------------------
(* C25: the shape of the remote calls of one service operation              *)

\* the branches of Promise.all that wait for a remote answer
OpenBranches(p) == {t \in DOMAIN hist[p].branches : hist[p].branches[t] # "done"}
NoParallelBranches(p) == Cardinality(OpenBranches(p)) <= 1
\* one existence read at most, then the primary call
ReadThenPrimary(p) == Len(calls[p]) <= 2
\* a repository method that is at its second remote call
SecondRemoteCall(p) == pc[p] \in {"updateOne", "deleteOne"} /\ ~ById(req[p])

\* C25: every service operation issues its remote calls as one sequential
\* chain without parallel branches, made of at most one existence read
\* followed by exactly one primary remote call, and each repository method
\* makes exactly one remote call.
C25_OneSequentialChain ==
    \A p \in Proc :
        /\ NoParallelBranches(p)
        /\ ReadThenPrimary(p)
        /\ ~SecondRemoteCall(p)
        /\ (pc[p] = "done" /\ result[p].name = "ok") => Len(calls[p]) >= 1

-----------------------------------------------------------------------------
(* C26: the order of the dispatcher                                         *)

\* the requests an identifier has used in its running window
LiveCount(id) ==
    IF id \in DOMAIN requests /\ now <= requests[id].resetTime
    THEN requests[id].count ELSE 0
CountAfter(id) == IF id \in DOMAIN requests' THEN requests'[id].count ELSE 0
\* the buckets other than those in ids are as they were
OtherBucketsKept(ids) ==
    /\ DOMAIN requests' \ ids = DOMAIN requests \ ids
    /\ \A id \in DOMAIN requests \ ids : requests'[id] = requests[id]

\* a tool call begins
ToolCallBegins(p) == pc[p] = "idle" /\ hist'[p].tool # ""
DeniedByDispatcher(p) == hist'[p].stage = "checkAndConsume"
AcceptedInput(p) == hist'[p].tool \in RegisteredTools /\ hist'[p].valid

\* C26: a tool call first consumes one unit of bucket tool_<name>; when that
\* is denied, the call ends with the rate-limit error and neither a service
\* bucket nor a repository is touched; when the input is then refused by
\* validation, no service bucket and no repository is touched; a call that
\* passed both begins exactly the service method of its tool.
C26_LimitValidateRoute ==
    [][\A p \in Proc :
        ToolCallBegins(p)
        => LET name == hist'[p].tool
               id1 == "tool_" \o name
               id2 == RateId(OpOfTool(name))
           IN IF DeniedByDispatcher(p)
              THEN /\ LiveCount(id1) >= maxRequests
                   /\ requests' = requests
                   /\ pc'[p] = "done" /\ result'[p].name = "RateLimitError"
                   /\ calls'[p] = <<>>
              ELSE /\ LiveCount(id1) < maxRequests
                   /\ CountAfter(id1) = LiveCount(id1) + 1
                   /\ IF ~AcceptedInput(p)
                      THEN /\ OtherBucketsKept({id1})
                           /\ pc'[p] = "done"
                           /\ result'[p].name \notin {"ok", "RateLimitError"}
                           /\ calls'[p] = <<>>
                      ELSE /\ req'[p].op = OpOfTool(name)
                           /\ OtherBucketsKept({id1, id2})
                           /\ last'.op = "checkAndConsume" /\ last'.id = id2
                           /\ IF LiveCount(id2) >= maxRequests
                              THEN /\ pc'[p] = "done"
                                   /\ result'[p].name = "RateLimitError"
                                   /\ calls'[p] = <<>>
                              ELSE /\ CountAfter(id2) = LiveCount(id2) + 1
                                   /\ Len(calls'[p]) <= 1
                                   /\ result'[p].name # "RateLimitError"
    ]_vars

\* C26 witness: of two calls of create_object, one with a refused input used
\* the last unit of the tool's bucket and ended before any service, and the
\* other, whose input is accepted, was denied by the dispatcher.
C26_Witness ==
    \E p, q \in Proc :
        /\ hist[p].tool = "create_object" /\ hist[q].tool = "create_object"
        /\ hist[p].stage = "try" /\ ~hist[p].valid
        /\ result[p].name = "ZodError" /\ calls[p] = <<>>
        /\ hist[q].stage = "checkAndConsume" /\ hist[q].valid
        /\ result[q].name = "RateLimitError" /\ calls[q] = <<>>
        /\ "create_object" \notin DOMAIN requests

-----------------------------------------------------------------------------
(* C27: retrying after retryAfter                                           *)

\* the call before this step was a denied checkAndConsume, and this step is
\* the next call of the limiter: checkAndConsume on the same identifier,
\* retryAfter after the denial was reported
RetryAfterDenial ==
    /\ last.op = "checkAndConsume" /\ ~last.ret.allowed
    /\ last' # last
    /\ last'.op = "checkAndConsume" /\ last'.id = last.id
    /\ last'.at = last.at2 + last.ret.error.context.retryAfter

\* C27: a caller denied by checkAndConsume at time t, with no other call on
\* that identifier in between, is admitted when it retries at
\* t + retryAfter.
C27_RetryAfterIsEnough == [][RetryAfterDenial => last'.ret.allowed]_vars

-----------------------------------------------------------------------------
(* C28, C29: what createObject hands to the remote create                   *)

Creating(p) == req[p].op = "createObject" /\ Invoked(p, "objectRepository.create")

\* C28: createObject reaches the remote create only when the uniqueness
\* lookup has reported that no object holds the slug; when the lookup fails
\* for another reason, createObject fails and create is not invoked.
C28_CreateOnlyAfterNotFound ==
    \A p \in Proc :
        /\ Creating(p) => hist[p].lookup = "notfound"
        /\ (req[p].op = "createObject" /\ hist[p].lookup = "rejected")
            => /\ pc[p] = "done" /\ result[p].name \notin {"ok", "none"}
               /\ ~Invoked(p, "objectRepository.create")

\* the two parts of C28, each on its own
CreateFollowsLookup == \A p \in Proc : Creating(p) => hist[p].lookup # "rejected"
FailedLookupFails ==
    \A p \in Proc :
        (req[p].op = "createObject" /\ hist[p].lookup = "rejected")
        => ~Invoked(p, "objectRepository.create")

\* /^[a-z0-9]+(?:-[a-z0-9]+)*$/
MatchesSlugPattern(str) == str # <<>> /\ SlugShaped(str)

\* C29: whenever createObject invokes the remote create, the data carries a
\* slug that is not empty, matches ^[a-z0-9]+(?:-[a-z0-9]+)*$ and has passed
\* the uniqueness lookup of its type, whatever the title.
C29_CreateCarriesCheckedSlug ==
    \A p \in Proc :
        Creating(p)
        => /\ sent[p] # NoStr
           /\ MatchesSlugPattern(sent[p])
           /\ hist[p].lookup = "notfound"

\* a createObject that sends a slug sends one that matches the pattern
SentSlugMatches ==
    \A p \in Proc : (Creating(p) /\ sent[p] # NoStr) => MatchesSlugPattern(sent[p])
CreateHasSlug == \A p \in Proc : Creating(p) => sent[p] # NoStr

-----------------------------------------------------------------------------
(* C30: the two buckets of one tool                                         *)

\* C30: whatever calls of one tool, valid or not, came before and however
\* the clock advanced, a valid call admitted on bucket tool_<name> is not
\* then denied on the service's bucket <name>.
C30_ServiceBucketFollowsToolBucket ==
    [][\A p \in Proc :
        (ToolCallBegins(p) /\ ~DeniedByDispatcher(p) /\ AcceptedInput(p))
        => result'[p].name # "RateLimitError"
    ]_vars
====
